---- MODULE Spec2Model ----
(***************************************************************************)
(* Model of the semantic query engine (src/src/sparql_queries.py) and of   *)
(* the snapshot analyzer (src/src/snapshot_analyzer.py) of the LoL chatbot.*)
(*                                                                         *)
(* Strings that the code compares, lower-cases or sorts (champion names)   *)
(* are sequences of ASCII codes; vocabulary tags that the code only pastes *)
(* into a query are TLA+ strings.                                          *)
(***************************************************************************)
EXTENDS Integers, Sequences, FiniteSets, TLC

VARIABLES
    graph,          \* SemanticQueryEngine.graph: the loaded triples
    last_queries,   \* SemanticQueryEngine.last_queries
    snapshots,      \* SnapshotAnalyzer.snapshots: the loaded snapshots
    retriever_log,  \* the lookups the current request made in self.retriever
    champions,      \* DataRetriever.champions: the parsed champion dictionary
    items,          \* DataRetriever.items: the parsed item dictionary
    instances,      \* the module globals holding the shared engine and analyzer
    call,           \* the operation last invoked and its arguments
    result,         \* what that operation returned
    conversation_history,  \* main(): the messages of the completed exchanges
    heap,           \* the list objects of the query log and the engine's reference
    handed_out      \* the query lists earlier results hold, as references

vars == <<graph, last_queries, snapshots, retriever_log, champions, items, instances,
          call, result, conversation_history, heap, handed_out>>

\* the state of the chat session and of the query-log objects
session == <<conversation_history, heap, handed_out>>

\* no exchange was made; the engine's log is its first list object, empty,
\* and no result was handed out
NoSession ==
    /\ conversation_history = <<>>
    /\ heap = [lists |-> <<<<>>>>, engine |-> 1]
    /\ handed_out = <<>>

\* the module globals before anything was created: _engine,
\* _semantic_engine and _snapshot_analyzer are None (0), and no instance
\* was constructed yet
NoInstances == [engine |-> 0, semantic_engine |-> 0, snapshot_analyzer |-> 0,
                engines_built |-> 0, analyzers_built |-> 0]

None == "None"

(***************************************************************************)
(* Bounds of the model.                                                    *)
(***************************************************************************)
MaxFacts == 3       \* tag triples in the loaded graph
MaxCriteria == 2    \* tags in one search
MaxEdges == 3       \* champion-to-champion edges in the loaded graph
MaxTeam == 3        \* champions in one team
MaxNames == 2       \* champion names in one intent

(***************************************************************************)
(* The fact store.  Champion URIs, each with exactly one heroName (the     *)
(* mapping script derives the URI from the name, so no two URIs share one).*)
(***************************************************************************)
Champions == {"moba:A", "moba:Ab", "moba:B"}

\* "A", "Ab", "B"
HeroName == [c \in Champions |->
               CASE c = "moba:A"  -> <<65>>
                 [] c = "moba:Ab" -> <<65, 98>>
                 [] c = "moba:B"  -> <<66>>]

\* the tag vocabulary of each criterion group, and the relation and URI
\* suffix the engine uses for it
Groups == <<"roles", "lanes", "cc_types", "effects", "playstyles",
            "power_curves", "win_conditions">>

Vocabulary == [roles          |-> {"TankRole"},
               lanes          |-> {"TopLane"},
               cc_types       |-> {"Stun", "Knockup"},
               effects        |-> {"Dash"},
               playstyles     |-> {"Burst"},
               power_curves   |-> {"LateGame"},
               win_conditions |-> {"Teamfight"}]

DamageTypes == {"Magic"}

Relation == [roles          |-> "playsRole",
             lanes          |-> "typicalLane",
             cc_types       |-> "hasCrowdControl",
             effects        |-> "hasAbilityEffect",
             playstyles     |-> "hasPlaystyle",
             power_curves   |-> "hasPowerSpike",
             win_conditions |-> "hasWinCondition"]

Suffix == [roles          |-> "",
           lanes          |-> "",
           cc_types       |-> "CC",
           effects        |-> "Effect",
           playstyles     |-> "Playstyle",
           power_curves   |-> "PowerSpike",
           win_conditions |-> "WinCondition"]

GroupSet == {Groups[i] : i \in 1..Len(Groups)}

\* the champions that carry tags in the stores explored ("moba:B" has none)
Tagged == {"moba:A", "moba:Ab"}

TagTriples ==
    UNION {{<<c, Relation[g], t \o Suffix[g]>> : t \in Vocabulary[g]} :
              <<c, g>> \in Tagged \X GroupSet}
    \cup {<<c, "dealsDamageType", d>> : <<c, d>> \in Tagged \X DamageTypes}

\* a tag the caller may pass that is no legal local name: the query built
\* from it does not parse
BadTags == {"Da sh"}

(***************************************************************************)
(* Strings as sequences of ASCII codes.                                    *)
(***************************************************************************)
RECURSIVE LexLess(_, _)
\* Python / SPARQL string order: code point by code point, a proper prefix
\* first
LexLess(a, b) ==
    IF a = <<>> THEN b # <<>>
    ELSE IF b = <<>> THEN FALSE
    ELSE IF Head(a) # Head(b) THEN Head(a) < Head(b)
    ELSE LexLess(Tail(a), Tail(b))

ToSet(s) == {s[i] : i \in 1..Len(s)}

\* all orders in which the rows of a result set can come back
Orders(S) ==
    {s \in [1..Cardinality(S) -> S] : \A i, j \in 1..Cardinality(S) : i # j => s[i] # s[j]}

\* ORDER BY ?name
OrderByName(S) ==
    CHOOSE s \in Orders(S) : \A i \in 1..(Len(s) - 1) : LexLess(s[i], s[i + 1])

(***************************************************************************)
(* SemanticQueryEngine.query over "?champion moba:heroName ?name" joined   *)
(* with a list of triple patterns on ?champion.                            *)
(***************************************************************************)
Pattern(g, tag) == [p |-> Relation[g], tag |-> tag, o |-> tag \o Suffix[g]]

PatternsOf(g, tags) == [i \in 1..Len(tags) |-> Pattern(g, tags[i])]

Parses(pats) == \A i \in 1..Len(pats) : pats[i].tag \notin BadTags

Matches(g, c, pats) == \A i \in 1..Len(pats) : <<c, pats[i].p, pats[i].o>> \in g

\* SELECT DISTINCT ?name WHERE { ... }
SelectDistinctNames(g, pats) == {HeroName[c] : c \in {c \in Champions : Matches(g, c, pats)}}

\* query(): the rows, or [] when graph.query raises
query(g, pats) ==
    IF Parses(pats) THEN OrderByName(SelectDistinctNames(g, pats)) ELSE <<>>

\* Python truthiness of a list argument: None and [] are both false
Truthy(list) == Len(list) > 0

(***************************************************************************)
(* The lookups.  Each returns what the method returns (ret) and the        *)
(* queries it passed to query() (queries), which query() logs.             *)
(***************************************************************************)
\* a variant that constrains the champion by the first tag only
get_champions_by_cc_type_first_tag(g, cc_types) ==
    IF ~Truthy(cc_types) THEN [ret |-> <<>>, queries |-> <<>>]
    ELSE LET pats == PatternsOf("cc_types", <<cc_types[1]>>)
         IN  [ret |-> query(g, pats), queries |-> <<pats>>]

get_champions_by_cc_type(g, cc_types) ==
    IF ~Truthy(cc_types) THEN [ret |-> <<>>, queries |-> <<>>]
    ELSE LET pats == PatternsOf("cc_types", cc_types)
         IN  [ret |-> query(g, pats), queries |-> <<pats>>]

get_champions_by_effects(g, effects) ==
    IF ~Truthy(effects) THEN [ret |-> <<>>, queries |-> <<>>]
    ELSE LET pats == PatternsOf("effects", effects)
         IN  [ret |-> query(g, pats), queries |-> <<pats>>]

get_champions_by_playstyle(g, playstyles) ==
    IF ~Truthy(playstyles) THEN [ret |-> <<>>, queries |-> <<>>]
    ELSE LET pats == PatternsOf("playstyles", playstyles)
         IN  [ret |-> query(g, pats), queries |-> <<pats>>]

get_champions_by_power_curve(g, power_curve) ==
    LET pats == <<Pattern("power_curves", power_curve)>>
    IN  [ret |-> query(g, pats), queries |-> <<pats>>]

get_champions_by_win_condition(g, win_condition) ==
    LET pats == <<Pattern("win_conditions", win_condition)>>
    IN  [ret |-> query(g, pats), queries |-> <<pats>>]

get_champions_by_role_and_cc(g, role, cc_types) ==
    LET pats == <<Pattern("roles", role)>> \o PatternsOf("cc_types", cc_types)
    IN  [ret |-> query(g, pats), queries |-> <<pats>>]

\* recommend_pick's lane query: SELECT ?name (not DISTINCT, not ordered);
\* the names it yields
lane_champs(g, lane) ==
    LET pats == <<Pattern("lanes", lane)>>
    IN  IF Parses(pats) THEN SelectDistinctNames(g, pats) ELSE {}

DamagePattern(d) == [p |-> "dealsDamageType", tag |-> d, o |-> d]

\* the pattern list multi_criteria_champion_search builds
MultiPatterns(crit) ==
    PatternsOf("roles", crit.roles) \o
    PatternsOf("lanes", crit.lanes) \o
    PatternsOf("cc_types", crit.cc_types) \o
    PatternsOf("effects", crit.effects) \o
    PatternsOf("playstyles", crit.playstyles) \o
    PatternsOf("power_curves", crit.power_curves) \o
    PatternsOf("win_conditions", crit.win_conditions) \o
    (IF crit.damage_type # None THEN <<DamagePattern(crit.damage_type)>> ELSE <<>>)

\* a variant that drops the crowd-control patterns from the query
multi_criteria_champion_search_no_cc(g, crit) ==
    LET pats == MultiPatterns([crit EXCEPT !.cc_types = <<>>])
    IN  IF pats = <<>> THEN [ret |-> <<>>, queries |-> <<>>]
        ELSE [ret |-> query(g, pats), queries |-> <<pats>>]

\* a variant without the "no patterns" early return
multi_criteria_champion_search_no_guard(g, crit) ==
    LET pats == MultiPatterns(crit)
    IN  [ret |-> query(g, pats), queries |-> <<pats>>]

multi_criteria_champion_search(g, crit) ==
    LET pats == MultiPatterns(crit)
    IN  IF pats = <<>> THEN [ret |-> <<>>, queries |-> <<>>]
        ELSE [ret |-> query(g, pats), queries |-> <<pats>>]

(***************************************************************************)
(* Inputs of the searches.                                                 *)
(***************************************************************************)
InputTags == [g \in GroupSet |->
                IF g = "effects" THEN Vocabulary[g] \cup BadTags ELSE Vocabulary[g]]

\* the tag lists a caller may pass for a group: no tag twice, any order
TagLists(g) ==
    {s \in UNION {[1..n -> InputTags[g]] : n \in 0..MaxCriteria} :
        \A i, j \in 1..Len(s) : i # j => s[i] # s[j]}

CriteriaSize(c) ==
    Len(c.roles) + Len(c.lanes) + Len(c.cc_types) + Len(c.effects) +
    Len(c.playstyles) + Len(c.power_curves) + Len(c.win_conditions) +
    (IF c.damage_type # None THEN 1 ELSE 0)

\* explicit_empty: the groups without a tag are passed as [] rather than
\* left out (None)
CriteriaInputs ==
    {c \in [roles : TagLists("roles"), lanes : TagLists("lanes"),
            cc_types : TagLists("cc_types"), effects : TagLists("effects"),
            playstyles : TagLists("playstyles"),
            power_curves : TagLists("power_curves"),
            win_conditions : TagLists("win_conditions"),
            damage_type : DamageTypes \cup {None},
            explicit_empty : BOOLEAN] :
        /\ CriteriaSize(c) <= MaxCriteria
        /\ c.explicit_empty => CriteriaSize(c) <= 1}

Stores == {g \in SUBSET TagTriples : Cardinality(g) <= MaxFacts}

(***************************************************************************)
(* The search specification: a graph is loaded; every request starts with  *)
(* clear_query_log() and then calls one lookup, as dispatch_query does.    *)
(***************************************************************************)
NoCall == [op |-> "none"]

InitSearch ==
    /\ snapshots = <<>>
    /\ retriever_log = <<>>
    /\ champions = <<>>
    /\ items = <<>>
    /\ NoSession
    /\ instances = NoInstances
    /\ graph \in Stores
    /\ last_queries = <<>>
    /\ call = NoCall
    /\ result = <<>>

\* clear_query_log(): a new request begins, the previous result is dropped
ClearQueryLog ==
    /\ call # NoCall
    /\ last_queries' = <<>>
    /\ call' = NoCall
    /\ result' = <<>>
    /\ UNCHANGED <<graph, snapshots, retriever_log, champions, items, instances, session>>

Returns(op, args, r) ==
    /\ call' = [op |-> op, args |-> args]
    /\ result' = r.ret
    /\ last_queries' = last_queries \o r.queries
    /\ UNCHANGED <<graph, snapshots, retriever_log, champions, items, instances, session>>

MultiCriteriaSearch ==
    /\ call = NoCall
    /\ \E crit \in CriteriaInputs :
        Returns("multi_criteria_champion_search", crit,
                multi_criteria_champion_search(graph, crit))

ByCCType ==
    /\ call = NoCall
    /\ \E tags \in TagLists("cc_types") :
        Returns("get_champions_by_cc_type", tags, get_champions_by_cc_type(graph, tags))

ByEffects ==
    /\ call = NoCall
    /\ \E tags \in TagLists("effects") :
        Returns("get_champions_by_effects", tags, get_champions_by_effects(graph, tags))

ByPlaystyle ==
    /\ call = NoCall
    /\ \E tags \in TagLists("playstyles") :
        Returns("get_champions_by_playstyle", tags, get_champions_by_playstyle(graph, tags))

ByPowerCurve ==
    /\ call = NoCall
    /\ \E tag \in InputTags["power_curves"] :
        Returns("get_champions_by_power_curve", tag, get_champions_by_power_curve(graph, tag))

ByWinCondition ==
    /\ call = NoCall
    /\ \E tag \in InputTags["win_conditions"] :
        Returns("get_champions_by_win_condition", tag,
                get_champions_by_win_condition(graph, tag))

ByRoleAndCC ==
    /\ call = NoCall
    /\ \E role \in InputTags["roles"], tags \in TagLists("cc_types") :
        Returns("get_champions_by_role_and_cc", <<role, tags>>,
                get_champions_by_role_and_cc(graph, role, tags))

NextSearch ==
    \/ ClearQueryLog
    \/ MultiCriteriaSearch
    \/ ByCCType
    \/ ByEffects
    \/ ByPlaystyle
    \/ ByPowerCurve
    \/ ByWinCondition
    \/ ByRoleAndCC

SpecSearch == InitSearch /\ [][NextSearch]_vars

(***************************************************************************)
(* Claims about the searches.                                              *)
(***************************************************************************)
Inter(SS) == {x \in UNION SS : \A S \in SS : x \in S}

\* the names the engine's own lookup for one criterion group yields
PerGroupLookup(g, grp, tags) ==
    CASE grp = "cc_types"   -> ToSet(get_champions_by_cc_type(g, tags).ret)
      [] grp = "effects"    -> ToSet(get_champions_by_effects(g, tags).ret)
      [] grp = "playstyles" -> ToSet(get_champions_by_playstyle(g, tags).ret)
      [] grp = "power_curves" ->
            Inter({ToSet(get_champions_by_power_curve(g, tags[i]).ret) : i \in 1..Len(tags)})
      [] grp = "win_conditions" ->
            Inter({ToSet(get_champions_by_win_condition(g, tags[i]).ret) : i \in 1..Len(tags)})
      [] grp = "roles" ->
            Inter({ToSet(get_champions_by_role_and_cc(g, tags[i], <<>>).ret) : i \in 1..Len(tags)})
      [] grp = "lanes" ->
            Inter({lane_champs(g, tags[i]) : i \in 1..Len(tags)})

SuppliedGroups(crit) == {grp \in GroupSet : Truthy(crit[grp])}

\* C1: the multi-criteria result is contained in the per-group lookup result
\* of every supplied group and, when only the seven groups constrain the
\* search, equals the intersection of those per-group results.
C1_MultiIsIntersection ==
    call.op = "multi_criteria_champion_search" =>
        LET crit == call.args
            sup  == SuppliedGroups(crit)
        IN  /\ \A grp \in sup : ToSet(result) \subseteq PerGroupLookup(graph, grp, crit[grp])
            /\ (sup # {} /\ crit.damage_type = None) =>
                   ToSet(result) = Inter({PerGroupLookup(graph, grp, crit[grp]) : grp \in sup})

\* C1 witness: roles and cc_types both supplied, a champion found, and the
\* cc lookup alone finds more champions than the combined search
C1_Witness ==
    /\ call.op = "multi_criteria_champion_search"
    /\ call.args.roles = <<"TankRole">>
    /\ call.args.cc_types = <<"Stun">>
    /\ CriteriaSize(call.args) = 2
    /\ Len(result) = 1
    /\ Cardinality(PerGroupLookup(graph, "cc_types", <<"Stun">>)) = 2

\* the champions having relation rel to the URI of every tag
HavingAll(g, rel, suffix, tags) ==
    {c \in Champions : \A i \in 1..Len(tags) : <<c, rel, tags[i] \o suffix>> \in g}

Ascending(names) == \A i \in 1..(Len(names) - 1) : LexLess(names[i], names[i + 1])

ListLookupReturns(op, rel, suffix) ==
    (call.op = op /\ call.args # <<>>) =>
        /\ ToSet(result) = {HeroName[c] : c \in HavingAll(graph, rel, suffix, call.args)}
        /\ Ascending(result)

\* C2: for a non-empty tag list each per-relation lookup returns exactly the
\* names of the champions related to every tag, strictly ascending by name
\* (so without repetition).
C2_LookupIsConjunction ==
    /\ ListLookupReturns("get_champions_by_cc_type", "hasCrowdControl", "CC")
    /\ ListLookupReturns("get_champions_by_effects", "hasAbilityEffect", "Effect")
    /\ ListLookupReturns("get_champions_by_playstyle", "hasPlaystyle", "Playstyle")

\* C2 witness: one champion has Stun and Knockup, another only Stun, the
\* third neither; the lookup for both tags returns the first alone
C2_Witness ==
    /\ call.op = "get_champions_by_cc_type"
    /\ call.args = <<"Stun", "Knockup">>
    /\ graph = {<<"moba:Ab", "hasCrowdControl", "StunCC">>,
                 <<"moba:Ab", "hasCrowdControl", "KnockupCC">>,
                 <<"moba:A", "hasCrowdControl", "StunCC">>}
    /\ result = <<HeroName["moba:Ab"]>>

\* C3: a multi-criteria search without any criterion returns the empty
\* list (and issues no query), and so does a list lookup for an empty list.
C3_NoCriteriaIsEmpty ==
    /\ (call.op = "multi_criteria_champion_search" /\ CriteriaSize(call.args) = 0) =>
           (result = <<>> /\ last_queries = <<>>)
    /\ (call.op \in {"get_champions_by_cc_type", "get_champions_by_effects",
                      "get_champions_by_playstyle"} /\ call.args = <<>>) =>
           (result = <<>> /\ last_queries = <<>>)

\* C3 witness: a search with every group passed as an empty list over a
\* store that holds tagged champions
C3_Witness ==
    /\ call.op = "multi_criteria_champion_search"
    /\ CriteriaSize(call.args) = 0
    /\ call.args.explicit_empty
    /\ Cardinality(graph) = MaxFacts
    /\ result = <<>>

\* C3 witness for the lookups: an empty tag list over a non-empty store
C3_WitnessLookup ==
    /\ call.op = "get_champions_by_effects"
    /\ call.args = <<>>
    /\ graph # {}
    /\ result = <<>>

(***************************************************************************)
(* get_team_synergy_score.                                                 *)
(***************************************************************************)
\* names a caller may pass: the three champions, "a" (no champion has this
\* exact name) and a name holding a double quote (ASCII 34), which ends the
\* string literal of the ASK query early so that the query does not parse
Quote == 34

InputNames == {HeroName[c] : c \in Champions} \cup {<<97>>, <<66, Quote>>}

HasQuote(name) == \E i \in 1..Len(name) : name[i] = Quote

Teams == UNION {[1..n -> InputNames] : n \in 0..MaxTeam}

\* the index pairs (i, j), i < j, in the order of the nested loops
PairSeq(n) ==
    LET RECURSIVE From(_)
        From(i) == IF i >= n THEN <<>>
                   ELSE [k \in 1..(n - i) |-> <<i, i + k>>] \o From(i + 1)
    IN  From(1)

\* the same ASK with the second branch of the UNION left out
AskOneDirection(g, rel, champ1, champ2) ==
    \E c1, c2 \in Champions :
        /\ HeroName[c1] = champ1
        /\ HeroName[c2] = champ2
        /\ <<c1, rel, c2>> \in g

\* ASK { ?c1 heroName champ1 . ?c2 heroName champ2 .
\*       { ?c1 rel ?c2 } UNION { ?c2 rel ?c1 } }
AskEitherDirection(g, rel, champ1, champ2) ==
    \E c1, c2 \in Champions :
        /\ HeroName[c1] = champ1
        /\ HeroName[c2] = champ2
        /\ (<<c1, rel, c2>> \in g \/ <<c2, rel, c1>> \in g)

RECURSIVE ScorePairsNormalFirst(_, _, _)
\* a variant that asks for the normal edge before the strong one
ScorePairsNormalFirst(g, team, pairs) ==
    IF pairs = <<>> THEN [synergy_pairs |-> <<>>, total_score |-> 0]
    ELSE LET champ1 == team[Head(pairs)[1]]
             champ2 == team[Head(pairs)[2]]
             rest   == ScorePairsNormalFirst(g, team, Tail(pairs))
         IN  IF AskEitherDirection(g, "synergyWith", champ1, champ2)
             THEN [synergy_pairs |-> <<<<champ1, champ2, "normal">>>> \o rest.synergy_pairs,
                   total_score |-> 1 + rest.total_score]
             ELSE IF AskEitherDirection(g, "strongSynergyWith", champ1, champ2)
             THEN [synergy_pairs |-> <<<<champ1, champ2, "strong">>>> \o rest.synergy_pairs,
                   total_score |-> 3 + rest.total_score]
             ELSE rest

RECURSIVE ScorePairs(_, _, _)
\* the loop body over the remaining pairs: strong first, else normal
ScorePairs(g, team, pairs) ==
    IF pairs = <<>> THEN [synergy_pairs |-> <<>>, total_score |-> 0]
    ELSE LET champ1 == team[Head(pairs)[1]]
             champ2 == team[Head(pairs)[2]]
             rest   == ScorePairs(g, team, Tail(pairs))
         IN  IF AskEitherDirection(g, "strongSynergyWith", champ1, champ2)
             THEN [synergy_pairs |-> <<<<champ1, champ2, "strong">>>> \o rest.synergy_pairs,
                   total_score |-> 3 + rest.total_score]
             ELSE IF AskEitherDirection(g, "synergyWith", champ1, champ2)
             THEN [synergy_pairs |-> <<<<champ1, champ2, "normal">>>> \o rest.synergy_pairs,
                   total_score |-> 1 + rest.total_score]
             ELSE rest

RaisedError == [exception |-> "query does not parse"]

Raised(r) == "exception" \in DOMAIN r

\* the ASK queries go to graph.query directly: nothing is logged, and a
\* query that does not parse raises out of the method
get_team_synergy_score(g, team) ==
    IF Len(team) >= 2 /\ \E i \in 1..Len(team) : HasQuote(team[i])
    THEN [ret |-> RaisedError, queries |-> <<>>]
    ELSE LET scored == ScorePairs(g, team, PairSeq(Len(team)))
         IN  [ret |-> [synergy_pairs |-> scored.synergy_pairs,
                       total_score   |-> scored.total_score,
                       max_possible  |-> ((Len(team) * (Len(team) - 1)) \div 2) * 3],
              queries |-> <<>>]

SynergyRelations == {"strongSynergyWith", "synergyWith"}

EdgeTriples(rels) ==
    {<<c1, rel, c2>> : <<c1, rel, c2>> \in
        {t \in Champions \X rels \X Champions : t[1] # t[3]}}

SynergyStores == {g \in SUBSET EdgeTriples(SynergyRelations) : Cardinality(g) <= MaxEdges}

InitSynergy ==
    /\ snapshots = <<>>
    /\ retriever_log = <<>>
    /\ champions = <<>>
    /\ items = <<>>
    /\ NoSession
    /\ instances = NoInstances
    /\ graph \in SynergyStores
    /\ last_queries = <<>>
    /\ call = NoCall
    /\ result = <<>>

TeamSynergyScore ==
    /\ call = NoCall
    /\ \E team \in Teams :
        Returns("get_team_synergy_score", team, get_team_synergy_score(graph, team))

NextSynergy ==
    \/ ClearQueryLog
    \/ TeamSynergyScore

SpecSynergy == InitSynergy /\ [][NextSynergy]_vars

(***************************************************************************)
(* Claims about get_team_synergy_score.                                    *)
(***************************************************************************)
\* an edge rel between the champions named a and b, in either direction
EdgeBetween(g, rel, a, b) ==
    \E t \in g : /\ t[2] = rel
                 /\ \/ (HeroName[t[1]] = a /\ HeroName[t[3]] = b)
                    \/ (HeroName[t[1]] = b /\ HeroName[t[3]] = a)

TierOf(g, a, b) ==
    IF EdgeBetween(g, "strongSynergyWith", a, b) THEN "strong"
    ELSE IF EdgeBetween(g, "synergyWith", a, b) THEN "normal"
    ELSE "none"

PointsOf(tier) == CASE tier = "strong" -> 3 [] tier = "normal" -> 1 [] OTHER -> 0

RECURSIVE SumSeq(_)
SumSeq(s) == IF s = <<>> THEN 0 ELSE Head(s) + SumSeq(Tail(s))

\* C4: every index pair i < j of the team is examined once, in loop order;
\* a strong edge in either direction gives (champ_i, champ_j, "strong") and
\* +3 even beside a normal edge, otherwise a normal edge in either direction
\* gives "normal" and +1, otherwise the pair is omitted and adds 0.
C4_SynergyScore ==
    (call.op = "get_team_synergy_score" /\ ~Raised(result)) =>
        LET team  == call.args
            pairs == PairSeq(Len(team))
            tier(k) == TierOf(graph, team[pairs[k][1]], team[pairs[k][2]])
            kept  == SelectSeq([k \in 1..Len(pairs) |-> k], LAMBDA k : tier(k) # "none")
        IN  /\ Len(pairs) = Cardinality({ij \in (1..Len(team)) \X (1..Len(team)) : ij[1] < ij[2]})
            /\ result.synergy_pairs =
                   [n \in 1..Len(kept) |->
                       <<team[pairs[kept[n]][1]], team[pairs[kept[n]][2]], tier(kept[n])>>]
            /\ result.total_score = SumSeq([k \in 1..Len(pairs) |-> PointsOf(tier(k))])

\* C4 witness: the team [A, B] over a store whose only edge is
\* A strongSynergyWith B yields [(A, B, "strong")], 3, 3
C4_Witness ==
    /\ call.op = "get_team_synergy_score"
    /\ call.args = <<HeroName["moba:A"], HeroName["moba:B"]>>
    /\ graph = {<<"moba:A", "strongSynergyWith", "moba:B">>}
    /\ result = [synergy_pairs |-> <<<<HeroName["moba:A"], HeroName["moba:B"], "strong">>>>,
                 total_score |-> 3, max_possible |-> 3]

\* C4 witness for the precedence: a pair with a normal edge one way and a
\* strong edge the other way counts as strong
C4_WitnessBothEdges ==
    /\ call.op = "get_team_synergy_score"
    /\ call.args = <<HeroName["moba:A"], HeroName["moba:B"]>>
    /\ graph = {<<"moba:A", "synergyWith", "moba:B">>, <<"moba:B", "strongSynergyWith", "moba:A">>}
    /\ result.total_score = 3

SwapPair(p) == <<p[2], p[1], p[3]>>

\* C5 as claimed: the result for [A, B] equals the result for [B, A]
C5_Original ==
    (call.op = "get_team_synergy_score" /\ Len(call.args) = 2) =>
        result = get_team_synergy_score(graph, <<call.args[2], call.args[1]>>).ret

\* C5 as amended: for [A, B] and [B, A] total_score and max_possible are
\* equal and the synergy pairs are the same pairs with the same tiers, each
\* listing its two names in the order of the team given; max_possible is 3
\* times the number of index pairs of the team.
C5_SynergySymmetry ==
    (call.op = "get_team_synergy_score" /\ ~Raised(result)) =>
        LET team == call.args
            n    == Len(team)
        IN  /\ result.max_possible = 3 * Cardinality({ij \in (1..n) \X (1..n) : ij[1] < ij[2]})
            /\ 2 * result.max_possible = n * (n - 1) * 3
            /\ n = 2 =>
                  LET swapped == get_team_synergy_score(graph, <<team[2], team[1]>>).ret
                  IN  /\ ~Raised(swapped)
                      /\ swapped.total_score = result.total_score
                      /\ swapped.max_possible = result.max_possible
                      /\ swapped.synergy_pairs =
                             [k \in 1..Len(result.synergy_pairs) |-> SwapPair(result.synergy_pairs[k])]

\* C5 witness: two different champions joined by an edge recorded one way
\* only, scored in the order opposite to the edge
C5_Witness ==
    /\ call.op = "get_team_synergy_score"
    /\ call.args = <<HeroName["moba:B"], HeroName["moba:A"]>>
    /\ graph = {<<"moba:A", "synergyWith", "moba:B">>}
    /\ result.synergy_pairs = <<<<HeroName["moba:B"], HeroName["moba:A"], "normal">>>>
    /\ result.total_score = 1

(***************************************************************************)
(* get_team_counter_coverage.  The result dict is a sequence of            *)
(* <<counter name, enemies>> entries in the dict's iteration order.        *)
(***************************************************************************)
\* str.lower() and SPARQL LCASE on ASCII
Lower(name) == [i \in 1..Len(name) |->
                  IF name[i] >= 65 /\ name[i] <= 90 THEN name[i] + 32 ELSE name[i]]

\* SELECT DISTINCT ?counter_name for one enemy: the set of rows; the query
\* fails to parse when the enemy name holds a double quote, and query()
\* then returns []
CounterNames(g, enemy) ==
    IF HasQuote(enemy) THEN {}
    ELSE {HeroName[t[3]] : t \in {t \in g : /\ t[2] = "counteredBy"
                                             /\ Lower(HeroName[t[1]]) = Lower(enemy)}}

RECURSIVE RowOrdersFrom(_, _, _)
RowOrdersFrom(g, enemy_champions, i) ==
    IF i > Len(enemy_champions) THEN {<<>>}
    ELSE {<<first>> \o rest :
            first \in Orders(CounterNames(g, enemy_champions[i])),
            rest \in RowOrdersFrom(g, enemy_champions, i + 1)}

\* the query has no ORDER BY: for each enemy the rows come in some order
RowOrders(g, enemy_champions) == RowOrdersFrom(g, enemy_champions, 1)

Keys(cov) == {cov[k][1] : k \in 1..Len(cov)}

\* a variant that stores the latest enemy instead of appending it
AddCounterOverwrite(cov, counter_name, enemy) ==
    IF counter_name \notin Keys(cov) THEN Append(cov, <<counter_name, <<enemy>>>>)
    ELSE [k \in 1..Len(cov) |->
            IF cov[k][1] = counter_name THEN <<cov[k][1], <<enemy>>>> ELSE cov[k]]

\* counter_coverage[counter_name].append(enemy), creating the entry at the
\* end of the dict when the key is new
AddCounter(cov, counter_name, enemy) ==
    IF counter_name \notin Keys(cov) THEN Append(cov, <<counter_name, <<enemy>>>>)
    ELSE [k \in 1..Len(cov) |->
            IF cov[k][1] = counter_name THEN <<cov[k][1], Append(cov[k][2], enemy)>> ELSE cov[k]]

RECURSIVE AddRows(_, _, _)
AddRows(cov, names, enemy) ==
    IF names = <<>> THEN cov
    ELSE AddRows(AddCounter(cov, Head(names), enemy), Tail(names), enemy)

RECURSIVE Accumulate(_, _, _, _)
\* the loop over the enemies from index i on
Accumulate(cov, enemy_champions, rows, i) ==
    IF i > Len(enemy_champions) THEN cov
    ELSE Accumulate(AddRows(cov, rows[i], enemy_champions[i]), enemy_champions, rows, i + 1)

\* where a stable descending sort puts x among the already sorted acc
InsertByLength(acc, x) ==
    LET k == Cardinality({n \in 1..Len(acc) : Len(acc[n][2]) >= Len(x[2])})
    IN  SubSeq(acc, 1, k) \o <<x>> \o SubSeq(acc, k + 1, Len(acc))

RECURSIVE SortedByLengthFrom(_, _)
SortedByLengthFrom(acc, cov) ==
    IF cov = <<>> THEN acc
    ELSE SortedByLengthFrom(InsertByLength(acc, Head(cov)), Tail(cov))

\* the dict left in insertion order
Unsorted(cov) == cov

\* dict(sorted(items, key=len of the list, reverse=True)): stable
SortedByCoverage(cov) == SortedByLengthFrom(<<>>, cov)

get_team_counter_coverage(g, enemy_champions, rows) ==
    [ret |-> SortedByCoverage(Accumulate(<<>>, enemy_champions, rows, 1)),
     queries |-> [i \in 1..Len(enemy_champions) |->
                    [counteredBy_of |-> Lower(enemy_champions[i])]]]

CounterStores == {g \in SUBSET EdgeTriples({"counteredBy"}) : Cardinality(g) <= MaxEdges}

InitCoverage ==
    /\ snapshots = <<>>
    /\ retriever_log = <<>>
    /\ champions = <<>>
    /\ items = <<>>
    /\ NoSession
    /\ instances = NoInstances
    /\ graph \in CounterStores
    /\ last_queries = <<>>
    /\ call = NoCall
    /\ result = <<>>

TeamCounterCoverage ==
    /\ call = NoCall
    /\ \E enemy_champions \in Teams :
        \E rows \in RowOrders(graph, enemy_champions) :
            LET r == get_team_counter_coverage(graph, enemy_champions, rows)
            IN  /\ call' = [op |-> "get_team_counter_coverage", args |-> enemy_champions,
                            rows |-> rows]
                /\ result' = r.ret
                /\ last_queries' = last_queries \o r.queries
                /\ UNCHANGED <<graph, snapshots, retriever_log, champions, items, instances, session>>

NextCoverage ==
    \/ ClearQueryLog
    \/ TeamCounterCoverage

SpecCoverage == InitCoverage /\ [][NextCoverage]_vars

(***************************************************************************)
(* Claims about get_team_counter_coverage.                                 *)
(***************************************************************************)
Distinct(seq) == \A i, j \in 1..Len(seq) : i # j => seq[i] # seq[j]

\* the enemy named e (in any letter case) has a counteredBy edge to the
\* champion named x
CounteredByEdge(g, e, x) ==
    \E t \in g : /\ t[2] = "counteredBy"
                 /\ Lower(HeroName[t[1]]) = Lower(e)
                 /\ HeroName[t[3]] = x

\* C6: for distinct enemies the map holds, for each champion X, exactly the
\* enemies with a counteredBy edge to X, in the order given; a champion
\* that counters no enemy has no entry, and no key occurs twice.
C6_CounterCoverage ==
    (call.op = "get_team_counter_coverage" /\ Distinct(call.args)) =>
        /\ \A k, l \in 1..Len(result) : k # l => result[k][1] # result[l][1]
        /\ Keys(result) \subseteq {HeroName[c] : c \in Champions}
        /\ \A c \in Champions :
              LET covered == SelectSeq(call.args,
                                       LAMBDA e : CounteredByEdge(graph, e, HeroName[c]))
              IN  IF covered = <<>> THEN HeroName[c] \notin Keys(result)
                  ELSE \E k \in 1..Len(result) : result[k] = <<HeroName[c], covered>>

\* C6 witness: B counters both enemies A and Ab, and Ab counters A only
C6_Witness ==
    /\ call.op = "get_team_counter_coverage"
    /\ call.args = <<HeroName["moba:A"], HeroName["moba:Ab"]>>
    /\ graph = {<<"moba:A", "counteredBy", "moba:B">>, <<"moba:Ab", "counteredBy", "moba:B">>,
                 <<"moba:A", "counteredBy", "moba:Ab">>}
    /\ \E k \in 1..Len(result) :
           result[k] = <<HeroName["moba:B"], <<HeroName["moba:A"], HeroName["moba:Ab"]>>>>
    /\ HeroName["moba:A"] \notin Keys(result)

\* where the scan of the enemies first met the counter named x
FirstEnemy(rows, x) ==
    CHOOSE i \in 1..Len(rows) :
        /\ x \in ToSet(rows[i])
        /\ \A j \in 1..(i - 1) : x \notin ToSet(rows[j])

RowPosition(rows, x) ==
    CHOOSE p \in 1..Len(rows[FirstEnemy(rows, x)]) : rows[FirstEnemy(rows, x)][p] = x

DiscoveredBefore(rows, x, y) ==
    \/ FirstEnemy(rows, x) < FirstEnemy(rows, y)
    \/ /\ FirstEnemy(rows, x) = FirstEnemy(rows, y)
       /\ RowPosition(rows, x) < RowPosition(rows, y)

\* C7: the entries come in non-increasing order of the number of enemies
\* covered, and entries covering equally many enemies keep the order in
\* which the scan of the enemies first discovered them.
C7_CoverageOrder ==
    call.op = "get_team_counter_coverage" =>
        \A k, l \in 1..Len(result) :
            k < l =>
                /\ Len(result[k][2]) >= Len(result[l][2])
                /\ Len(result[k][2]) = Len(result[l][2]) =>
                       DiscoveredBefore(call.rows, result[k][1], result[l][1])

\* C7 witness: the counter discovered second covers more enemies and is
\* moved in front of the one discovered first
C7_Witness ==
    /\ call.op = "get_team_counter_coverage"
    /\ Len(result) = 2
    /\ Len(result[1][2]) = 2
    /\ Len(result[2][2]) = 1
    /\ DiscoveredBefore(call.rows, result[2][1], result[1][1])

\* C7 witness for ties: two counters of one enemy, returned by the query
\* against the order of their names, stay in that order
C7_WitnessTie ==
    /\ call.op = "get_team_counter_coverage"
    /\ Len(result) = 2
    /\ Len(result[1][2]) = Len(result[2][2])
    /\ LexLess(result[2][1], result[1][1])

(***************************************************************************)
(* The snapshot analyzer.  An optional value (Python None or a dict) is a  *)
(* sequence of no or one element.                                          *)
(***************************************************************************)
ROLE_POSITIONS ==
    [pid \in 1..10 |->
        CASE pid \in {1, 6}  -> "Top"
          [] pid \in {2, 7}  -> "Jungle"
          [] pid \in {3, 8}  -> "Mid"
          [] pid \in {4, 9}  -> "ADC"
          [] pid \in {5, 10} -> "Support"]

Min(S) == CHOOSE x \in S : \A y \in S : x <= y

\* a variant that takes the first player when nobody has participant_id 1
get_user_player_or_first(snapshot) ==
    LET found == {i \in 1..Len(snapshot.players) : snapshot.players[i].participant_id = 1}
    IN  IF found # {} THEN <<snapshot.players[Min(found)]>>
        ELSE IF snapshot.players # <<>> THEN <<snapshot.players[1]>>
        ELSE <<>>

\* the first player with participant_id 1, or None
get_user_player(snapshot) ==
    LET found == {i \in 1..Len(snapshot.players) : snapshot.players[i].participant_id = 1}
    IN  IF found = {} THEN <<>> ELSE <<snapshot.players[Min(found)]>>

get_allies(snapshot) ==
    LET user == get_user_player(snapshot)
    IN  IF user = <<>> THEN <<>>
        ELSE SelectSeq(snapshot.players,
                       LAMBDA p : p.team = user[1].team /\ p.participant_id # 1)

get_enemies(snapshot) ==
    LET user == get_user_player(snapshot)
    IN  IF user = <<>> THEN <<>>
        ELSE SelectSeq(snapshot.players, LAMBDA p : p.team # user[1].team)

\* the first enemy on the user's position, else the first enemy, else None
get_lane_opponent(snapshot) ==
    LET user == get_user_player(snapshot)
    IN  IF user = <<>> THEN <<>>
        ELSE LET user_position == ROLE_POSITIONS[user[1].participant_id]
                 enemies == get_enemies(snapshot)
                 same == {i \in 1..Len(enemies) :
                             ROLE_POSITIONS[enemies[i].participant_id] = user_position}
             IN  IF same # {} THEN <<enemies[Min(same)]>>
                 ELSE IF enemies # <<>> THEN <<enemies[1]>>
                 ELSE <<>>

\* a variant whose lower bounds include the threshold itself
GameStateInclusive(gold_diff) ==
    IF gold_diff >= 3000 THEN "Winning"
    ELSE IF gold_diff >= 1500 THEN "Ahead"
    ELSE IF gold_diff >= 500 THEN "Slightly Ahead"
    ELSE IF gold_diff < -3000 THEN "Losing"
    ELSE IF gold_diff < -1500 THEN "Behind"
    ELSE IF gold_diff < -500 THEN "Slightly Behind"
    ELSE "Even"

\* analyze_game_state: the game state assessment
GameState(gold_diff) ==
    IF gold_diff > 3000 THEN "Winning"
    ELSE IF gold_diff > 1500 THEN "Ahead"
    ELSE IF gold_diff > 500 THEN "Slightly Ahead"
    ELSE IF gold_diff < -3000 THEN "Losing"
    ELSE IF gold_diff < -1500 THEN "Behind"
    ELSE IF gold_diff < -500 THEN "Slightly Behind"
    ELSE "Even"

\* a variant of the lane state with the upper threshold at 1500
LaneStateWide(gold_diff) ==
    IF gold_diff > 1500 THEN "Winning Hard"
    ELSE IF gold_diff > 300 THEN "Winning"
    ELSE IF gold_diff < -1500 THEN "Losing Hard"
    ELSE IF gold_diff < -300 THEN "Losing"
    ELSE "Even"

\* a variant of the lane state whose bands include their thresholds
LaneStateInclusive(gold_diff) ==
    IF gold_diff >= 1000 THEN "Winning Hard"
    ELSE IF gold_diff >= 300 THEN "Winning"
    ELSE IF gold_diff <= -1000 THEN "Losing Hard"
    ELSE IF gold_diff <= -300 THEN "Losing"
    ELSE "Even"

\* _analyze_lane_matchup: the lane state
LaneState(gold_diff) ==
    IF gold_diff > 1000 THEN "Winning Hard"
    ELSE IF gold_diff > 300 THEN "Winning"
    ELSE IF gold_diff < -1000 THEN "Losing Hard"
    ELSE IF gold_diff < -300 THEN "Losing"
    ELSE "Even"

UserNotFound == [error |-> "User player not found in snapshot"]

\* one retriever lookup per element of a player list
LookupEach(method, players) == [i \in 1..Len(players) |-> <<method, players[i].champion>>]

\* ret: the game-state fields of the analysis; no lookup in the retriever
analyze_game_state(snapshot) ==
    LET user == get_user_player(snapshot)
    IN  IF user = <<>> THEN [ret |-> UserNotFound, lookups |-> <<>>]
        ELSE LET blue == user[1].team = "Blue"
                 gold_diff == IF blue THEN snapshot.gold_diff ELSE -snapshot.gold_diff
             IN  [ret |-> [game_state      |-> GameState(gold_diff),
                           team_gold       |-> IF blue THEN snapshot.blue_team_gold
                                               ELSE snapshot.red_team_gold,
                           enemy_team_gold |-> IF blue THEN snapshot.red_team_gold
                                               ELSE snapshot.blue_team_gold,
                           team_gold_diff  |-> gold_diff],
                  lookups |-> <<>>]

\* ret: champion, gold and lane opponent of the analysis; lookups: the
\* build and details of the user's champion, then each enemy's details
analyze_item_recommendations(snapshot) ==
    LET user == get_user_player(snapshot)
    IN  IF user = <<>> THEN [ret |-> UserNotFound, lookups |-> <<>>]
        ELSE LET opp == get_lane_opponent(snapshot)
             IN  [ret |-> [champion   |-> user[1].champion,
                           total_gold |-> user[1].total_gold,
                           lane_opponent |->
                               IF opp = <<>> THEN <<>>
                               ELSE <<[champion  |-> opp[1].champion,
                                       gold      |-> opp[1].total_gold,
                                       gold_diff |-> user[1].total_gold - opp[1].total_gold]>>],
                  lookups |-> <<<<"get_build", user[1].champion>>,
                                <<"get_champion_info", user[1].champion>>>> \o
                              LookupEach("get_champion_info", get_enemies(snapshot))]

analyze_lane_matchup(user, opponent) ==
    LET gold_diff == user.total_gold - opponent.total_gold
    IN  [opponent        |-> opponent.champion,
         opponent_gold   |-> opponent.total_gold,
         gold_difference |-> gold_diff,
         lane_state      |-> LaneState(gold_diff)]

\* the two lookups the strategy loop makes for every enemy
RECURSIVE StrategyLookups(_)
StrategyLookups(enemies) ==
    IF enemies = <<>> THEN <<>>
    ELSE <<<<"get_counters", Head(enemies).champion>>,
           <<"get_champion_info", Head(enemies).champion>>>> \o StrategyLookups(Tail(enemies))

\* ret: user champion, position and lane matchup of the analysis
analyze_counter_strategies(snapshot) ==
    LET user == get_user_player(snapshot)
    IN  IF user = <<>> THEN [ret |-> UserNotFound, lookups |-> <<>>]
        ELSE LET opp == get_lane_opponent(snapshot)
                 enemies == get_enemies(snapshot)
             IN  [ret |-> [user_champion |-> user[1].champion,
                           user_position |-> ROLE_POSITIONS[user[1].participant_id],
                           lane_matchup  |->
                               IF opp = <<>> THEN <<>>
                               ELSE <<analyze_lane_matchup(user[1], opp[1])>>],
                  lookups |-> <<<<"get_champion_info", user[1].champion>>,
                                <<"get_counters", user[1].champion>>>> \o
                              StrategyLookups(enemies) \o
                              <<<<"get_synergies", user[1].champion>>>> \o
                              LookupEach("get_champion_info", enemies)]

\* what Python raises for None.get(...)
AttributeError == [exception |-> "AttributeError: 'NoneType' object has no attribute 'get'"]

\* the first statements of _generate_summary read user.get(...): with no
\* user they raise; otherwise champion, position, state and differential
generate_summary(user, game_state) ==
    IF user = <<>> THEN AttributeError
    ELSE [champion   |-> user[1].champion,
          position   |-> ROLE_POSITIONS[user[1].participant_id],
          game_state |-> game_state.game_state,
          gold_diff  |-> game_state.team_gold_diff]

\* the three analyses in source order, then the summary; an exception of
\* the summary leaves the method
full_analysis(snapshot) ==
    LET user == get_user_player(snapshot)
        game_state == analyze_game_state(snapshot)
        item_recommendations == analyze_item_recommendations(snapshot)
        counter_strategies == analyze_counter_strategies(snapshot)
        summary == generate_summary(user, game_state.ret)
        lookups == game_state.lookups \o item_recommendations.lookups
                       \o counter_strategies.lookups
    IN  IF Raised(summary) THEN [ret |-> summary, lookups |-> lookups]
        ELSE [ret |-> [summary              |-> summary,
                       game_state           |-> game_state.ret,
                       item_recommendations |-> item_recommendations.ret,
                       counter_strategies   |-> counter_strategies.ret],
              lookups |-> lookups]

(***************************************************************************)
(* Snapshots explored: any subset of four players (the user, an ally, the  *)
(* enemy jungler and the enemy top laner, in this order), the user on      *)
(* either side, gold differentials at and next to every threshold.         *)
(***************************************************************************)
Sides == {"Blue", "Red"}

Opposite(team) == IF team = "Blue" THEN "Red" ELSE "Blue"

GoldDiffs == {-3001, -3000, -1501, -1500, -501, -500, 0, 500, 501, 1500, 1501, 3000, 3001}

TopGolds == {4500, 4999, 5000, 5699, 5700, 6000, 6300, 6301, 7000, 7001}

JungleGolds == {4500, 5700}

Player(pid, champion, team, gold) ==
    [participant_id |-> pid, champion |-> champion, team |-> team, total_gold |-> gold]

Roster(side, top_gold, jungle_gold) ==
    <<Player(1, "Garen", side, 6000),
      Player(2, "Lee Sin", side, 5000),
      Player(7, "Elise", Opposite(side), jungle_gold),
      Player(6, "Darius", Opposite(side), top_gold)>>

\* the players of the roster whose index is in present, in roster order
Present(roster, present) ==
    LET RECURSIVE From(_)
        From(i) == IF i > Len(roster) THEN <<>>
                   ELSE (IF i \in present THEN <<roster[i]>> ELSE <<>>) \o From(i + 1)
    IN  From(1)

SnapshotInputs ==
    {[players        |-> Present(Roster(side, tg, jg), present),
      gold_diff      |-> d,
      blue_team_gold |-> 30000 + d,
      red_team_gold  |-> 30000] :
        side \in Sides, tg \in TopGolds, jg \in JungleGolds,
        present \in SUBSET (1..4), d \in GoldDiffs}

InitSnapshot ==
    /\ graph = {}
    /\ last_queries = <<>>
    /\ snapshots \in {<<snapshot>> : snapshot \in SnapshotInputs}
    /\ retriever_log = <<>>
    /\ champions = <<>>
    /\ items = <<>>
    /\ NoSession
    /\ instances = NoInstances
    /\ call = NoCall
    /\ result = <<>>

\* the main loop takes the next question: the previous result is dropped
NextRequest ==
    /\ call # NoCall
    /\ call' = NoCall
    /\ result' = <<>>
    /\ retriever_log' = <<>>
    /\ UNCHANGED <<graph, last_queries, snapshots, champions, items, instances, session>>

Analyzed(op, index, r) ==
    /\ call' = [op |-> op, args |-> index]
    /\ result' = r.ret
    /\ retriever_log' = retriever_log \o r.lookups
    /\ UNCHANGED <<graph, last_queries, snapshots, champions, items, instances, session>>

AnalyzeGameState ==
    /\ call = NoCall
    /\ \E i \in 1..Len(snapshots) :
          Analyzed("analyze_game_state", i, analyze_game_state(snapshots[i]))

AnalyzeItemRecommendations ==
    /\ call = NoCall
    /\ \E i \in 1..Len(snapshots) :
          Analyzed("analyze_item_recommendations", i,
                   analyze_item_recommendations(snapshots[i]))

AnalyzeCounterStrategies ==
    /\ call = NoCall
    /\ \E i \in 1..Len(snapshots) :
          Analyzed("analyze_counter_strategies", i, analyze_counter_strategies(snapshots[i]))

FullAnalysis ==
    /\ call = NoCall
    /\ \E i \in 1..Len(snapshots) :
          Analyzed("full_analysis", i, full_analysis(snapshots[i]))

NextSnapshot ==
    \/ NextRequest
    \/ FullAnalysis
    \/ AnalyzeGameState
    \/ AnalyzeItemRecommendations
    \/ AnalyzeCounterStrategies

SpecSnapshot == InitSnapshot /\ [][NextSnapshot]_vars

(***************************************************************************)
(* Properties of the snapshot analyzer.                                    *)
(***************************************************************************)
HasUser(snapshot) ==
    \E i \in 1..Len(snapshot.players) : snapshot.players[i].participant_id = 1

\* the snapshot the last call analysed
Analysed == snapshots[call.args]

UserOf(snapshot) ==
    snapshot.players[Min({i \in 1..Len(snapshot.players) :
                             snapshot.players[i].participant_id = 1})]

\* the team gold differential seen from the user's side
TeamDiff(snapshot) ==
    IF UserOf(snapshot).team = "Blue" THEN snapshot.gold_diff ELSE -snapshot.gold_diff

Band(d) ==
    CASE d > 3000                -> "Winning"
      [] 1500 < d /\ d <= 3000   -> "Ahead"
      [] 500 < d /\ d <= 1500    -> "Slightly Ahead"
      [] -500 <= d /\ d <= 500   -> "Even"
      [] -1500 <= d /\ d < -500  -> "Slightly Behind"
      [] -3000 <= d /\ d < -1500 -> "Behind"
      [] d < -3000               -> "Losing"

\* C8: analyze_game_state reports as team_gold_diff the snapshot's gold_diff
\* for a Blue-side user and its negation otherwise, and classifies this
\* differential d with strict thresholds: d > 3000 Winning, 1500 < d <= 3000
\* Ahead, 500 < d <= 1500 Slightly Ahead, -500 <= d <= 500 Even,
\* -1500 <= d < -500 Slightly Behind, -3000 <= d < -1500 Behind,
\* d < -3000 Losing.
C8_GameStateBands ==
    (call.op = "analyze_game_state" /\ HasUser(Analysed)) =>
        /\ result.team_gold_diff = TeamDiff(Analysed)
        /\ result.game_state = Band(TeamDiff(Analysed))

\* a Red-side user whose snapshot differential is -1500 is Slightly Ahead
C8_Witness ==
    /\ call.op = "analyze_game_state"
    /\ HasUser(Analysed)
    /\ UserOf(Analysed).team = "Red"
    /\ Analysed.gold_diff = -1500
    /\ result.game_state = "Slightly Ahead"

\* the user has 6000 gold, the lane opponent 4500, and the counter
\* strategies have been analysed
LaneScenario ==
    /\ call.op = "analyze_counter_strategies"
    /\ HasUser(Analysed)
    /\ UserOf(Analysed).total_gold = 6000
    /\ get_lane_opponent(Analysed) # <<>>
    /\ get_lane_opponent(Analysed)[1].total_gold = 4500

\* C9 as stated: with user gold 6000 and lane opponent gold 4500 the lane
\* matchup of analyze_counter_strategies has lane_state "Winning".
C9_Original ==
    LaneScenario =>
        /\ result.lane_matchup # <<>>
        /\ result.lane_matchup[1].lane_state = "Winning"

\* C9: with user gold 6000 and lane opponent gold 4500 the lane matchup of
\* analyze_counter_strategies has gold_difference 1500 and lane_state
\* "Winning Hard", since 1500 exceeds the upper threshold of 1000.
C9_LaneWinningHard ==
    LaneScenario =>
        /\ result.lane_matchup # <<>>
        /\ result.lane_matchup[1].gold_difference = 1500
        /\ result.lane_matchup[1].lane_state = "Winning Hard"

C9_Witness ==
    /\ LaneScenario
    /\ ROLE_POSITIONS[get_lane_opponent(Analysed)[1].participant_id] = "Top"
    /\ result.lane_matchup[1].opponent = "Darius"
    /\ result.lane_matchup[1].lane_state = "Winning Hard"

AnalyzeOps ==
    {"analyze_game_state", "analyze_item_recommendations", "analyze_counter_strategies"}

\* C10: when the analysed snapshot has no player with participant_id 1,
\* each of the three analyses returns exactly the error payload "User player
\* not found in snapshot" and has made no lookup in the retriever.
C10_MissingUserIsError ==
    (call.op \in AnalyzeOps /\ ~HasUser(Analysed)) =>
        /\ result = [error |-> "User player not found in snapshot"]
        /\ retriever_log = <<>>
    /\ champions = <<>>
    /\ items = <<>>
    /\ NoSession
    /\ instances = NoInstances

\* a snapshot with players but without the user, given to the item analysis
C10_Witness ==
    /\ call.op = "analyze_item_recommendations"
    /\ ~HasUser(Analysed)
    /\ Len(Analysed.players) >= 2
    /\ result = UserNotFound

C10_WitnessGameState ==
    /\ call.op = "analyze_game_state"
    /\ ~HasUser(Analysed)
    /\ Analysed.players # <<>>
    /\ result = UserNotFound

C10_WitnessCounter ==
    /\ call.op = "analyze_counter_strategies"
    /\ ~HasUser(Analysed)
    /\ Analysed.players # <<>>
    /\ result = UserNotFound

\* C11 as stated: full_analysis on a snapshot without a player with
\* participant_id 1 returns a structured error payload and raises nothing.
C11_FullAnalysisMissingUser ==
    (call.op = "full_analysis" /\ ~HasUser(Analysed)) =>
        /\ ~Raised(result)
        /\ "error" \in DOMAIN result

\* full_analysis on a snapshot with the user returns all four parts
C11_WitnessWithUser ==
    /\ call.op = "full_analysis"
    /\ HasUser(Analysed)
    /\ DOMAIN result = {"summary", "game_state", "item_recommendations", "counter_strategies"}
    /\ result.summary.champion = "Garen"

(***************************************************************************)
(* The data retriever.  A Python value that is a string or None is a       *)
(* sequence of no element (None) or one element (the string, itself a      *)
(* sequence of ASCII codes); the same holds for a list or None.            *)
(***************************************************************************)
Nothing == <<>>

Some(x) == <<x>>

\* a in b on Python strings
IsSubstring(a, b) ==
    \E i \in 0..(Len(b) - Len(a)) : SubSeq(b, i + 1, i + Len(a)) = a

\* str.strip() for blanks
RECURSIVE Strip(_)
Strip(name) ==
    IF name = <<>> THEN name
    ELSE IF Head(name) = 32 THEN Strip(Tail(name))
    ELSE IF name[Len(name)] = 32 THEN Strip(SubSeq(name, 1, Len(name) - 1))
    ELSE name

\* replace(" ", "_").replace("'", "").replace(".", "")
RECURSIVE ReplaceMarks(_)
ReplaceMarks(name) ==
    IF name = <<>> THEN <<>>
    ELSE (IF Head(name) = 32 THEN <<95>>
          ELSE IF Head(name) \in {39, 46} THEN <<>>
          ELSE <<Head(name)>>) \o ReplaceMarks(Tail(name))

\* of the alias table, the entry "yi" -> "master_yi"
Aliases == {<<<<121, 105>>, <<109, 97, 115, 116, 101, 114, 95, 121, 105>>>>}

\* None and "" are returned as they are
normalize_champion_name(name) ==
    IF name = Nothing \/ name[1] = <<>> THEN name
    ELSE LET lowered == Strip(Lower(name[1]))
         IN  IF \E al \in Aliases : al[1] = lowered
             THEN Some((CHOOSE al \in Aliases : al[1] = lowered)[2])
             ELSE Some(ReplaceMarks(lowered))

TypeError == [exception |-> "TypeError: 'in <string>' requires string as left operand, not NoneType"]

\* the direct lookup, then the first entry in dictionary order whose key
\* contains or is contained in the normalized name or whose name equals the
\* given one in lower case; the containment test raises when the normalized
\* name is None
find_champion(store, name) ==
    LET Lookup(normalized) ==
            LET direct == {i \in 1..Len(store) : normalized = Some(store[i].key)}
                hits == {i \in 1..Len(store) :
                            \/ IsSubstring(normalized[1], store[i].key)
                            \/ IsSubstring(store[i].key, normalized[1])
                            \/ Lower(store[i].name) = Lower(name[1])}
            IN  IF direct # {} THEN [champ |-> Some(store[Min(direct)])]
                ELSE IF store = <<>> THEN [champ |-> Nothing]
                ELSE IF normalized = Nothing THEN TypeError
                ELSE IF hits = {} THEN [champ |-> Nothing]
                ELSE [champ |-> Some(store[Min(hits)])]
    IN  Lookup(normalize_champion_name(name))

\* dict.get(key, default)
Get(intent, key, default) == IF key \in DOMAIN intent THEN intent[key] ELSE default

\* the error names the champion asked for; the info names the one found
\* and carries its type, damage type, range, roles and base statistics
\* (base_stats: the names of the statistics)
get_champion_info(store, champion_name) ==
    LET Info(found) ==
            IF Raised(found) THEN found
            ELSE IF found.champ = Nothing
            THEN [error |-> "Champion not found", champion_name |-> champion_name]
            ELSE [champion    |-> found.champ[1].name,
                  hero_type   |-> Get(found.champ[1], "hero_type", Nothing),
                  damage_type |-> Get(found.champ[1], "damage_type", Nothing),
                  is_ranged   |-> Get(found.champ[1], "is_ranged", Nothing),
                  roles       |-> Get(found.champ[1], "roles", <<>>),
                  base_stats  |-> Get(found.champ[1], "base_stats", <<>>)]
    IN  Info(find_champion(store, champion_name))

(***************************************************************************)
(* The shared instances.  An instance is the number of its construction;   *)
(* 0 is None.                                                              *)
(***************************************************************************)
\* a variant that builds a new engine whenever file names are given
get_query_engine_reload(inst, champions_ttl) ==
    IF inst.engine = 0 \/ champions_ttl # Nothing
    THEN [inst EXCEPT !.engine = inst.engines_built + 1, !.engines_built = @ + 1]
    ELSE inst

\* sparql_queries.get_query_engine: builds the engine only while _engine
\* is None; the arguments are read only then
get_query_engine(inst, champions_ttl) ==
    IF inst.engine = 0
    THEN [inst EXCEPT !.engine = inst.engines_built + 1, !.engines_built = @ + 1]
    ELSE inst

get_semantic_engine(inst) ==
    IF inst.semantic_engine = 0
    THEN LET made == get_query_engine(inst, Nothing)
         IN  [made EXCEPT !.semantic_engine = made.engine]
    ELSE inst

\* data_retriever.get_snapshot_analyzer
get_snapshot_analyzer(inst) ==
    IF inst.snapshot_analyzer = 0
    THEN [inst EXCEPT !.snapshot_analyzer = inst.analyzers_built + 1,
                      !.analyzers_built = @ + 1]
    ELSE inst

(***************************************************************************)
(* dispatch_query.  An intent is a Python dict: a function from the slot   *)
(* names it holds to their values; a value is None (no element) or one     *)
(* element.  Every branch yields what dispatch_query returns (ret), the    *)
(* engine's log and the module globals afterwards, the retriever lookups   *)
(* made, and the queries sent to the graph (issued).                       *)
(***************************************************************************)
\* truthiness of a name or list that may be None
PyTruthy(value) == value # Nothing /\ value[1] # <<>>

\* truthiness of a vocabulary tag that may be None
TagTruthy(value) == value # Nothing /\ value[1] # ""

Out(ret, log, lookups, inst, issued) ==
    [ret |-> ret, last_queries |-> log, lookups |-> lookups, instances |-> inst,
     issued |-> issued]

ComparisonError ==
    [exception |-> "TypeError: '<=' not supported between instances of 'int' and 'NoneType'"]

\* a variant that has no snapshot for an index out of range
get_snapshot_in_range_only(snaps, index) ==
    IF snaps = <<>> THEN [snapshot |-> Nothing]
    ELSE IF index = Nothing THEN ComparisonError
    ELSE IF 0 <= index[1] /\ index[1] < Len(snaps) THEN [snapshot |-> Some(snaps[index[1] + 1])]
    ELSE [snapshot |-> Nothing]

\* snapshot index when it is in range, else the first one, else None; the
\* comparison is reached only when snapshots are loaded
get_snapshot(snaps, index) ==
    IF snaps = <<>> THEN [snapshot |-> Nothing]
    ELSE IF index = Nothing THEN ComparisonError
    ELSE IF 0 <= index[1] /\ index[1] < Len(snaps) THEN [snapshot |-> Some(snaps[index[1] + 1])]
    ELSE [snapshot |-> Some(snaps[1])]

\* the ASK queries get_team_synergy_score sends to graph.query, in order:
\* for each pair the strong one, and the normal one if that was answered no
RECURSIVE IssuedAsks(_, _, _)
IssuedAsks(g, team, pairs) ==
    IF pairs = <<>> THEN <<>>
    ELSE LET champ1 == team[Head(pairs)[1]]
             champ2 == team[Head(pairs)[2]]
             strong == [ask |-> "strongSynergyWith", champ1 |-> champ1, champ2 |-> champ2]
             normal == [ask |-> "synergyWith", champ1 |-> champ1, champ2 |-> champ2]
         IN  (IF AskEitherDirection(g, "strongSynergyWith", champ1, champ2)
              THEN <<strong>> ELSE <<strong, normal>>)
             \o IssuedAsks(g, team, Tail(pairs))

\* the names a dispatch hands to the engine: the found champion's name,
\* else the name as given
NormalizeTeam(store, names) ==
    [i \in 1..Len(names) |->
        LET found == find_champion(store, Some(names[i]))
        IN  IF found.champ # Nothing THEN found.champ[1].name ELSE names[i]]

\* from the profile: the champion, whether its URI was found, and per
\* relation the tags read; the queries passed to query()
get_champion_semantic_profile(g, champion_name) ==
    LET uris == IF HasQuote(champion_name) THEN {}
                ELSE {c \in Champions : HeroName[c] = champion_name}
        uri_query == [uri_of |-> champion_name]
    IN  IF uris = {}
        THEN [ret |-> [champion |-> champion_name, found |-> FALSE,
                       tags |-> [grp \in GroupSet |-> {}]],
              queries |-> <<uri_query>>]
        ELSE LET champ_uri == CHOOSE c \in uris : TRUE
             IN  [ret |-> [champion |-> champion_name, found |-> TRUE,
                           tags |-> [grp \in GroupSet |->
                               {t \in Vocabulary[grp] :
                                   <<champ_uri, Relation[grp], t \o Suffix[grp]>> \in g}]],
                  queries |-> <<uri_query,
                                [property |-> "hasCrowdControl", of |-> champ_uri],
                                [property |-> "hasAbilityEffect", of |-> champ_uri],
                                [property |-> "hasPlaystyle", of |-> champ_uri],
                                [property |-> "hasPowerSpike", of |-> champ_uri],
                                [property |-> "hasWinCondition", of |-> champ_uri],
                                [property |-> "playsRole", of |-> champ_uri],
                                [property |-> "typicalLane", of |-> champ_uri]>>]

\* a list slot as the engine receives it: None stays "no list"
ListOrNone(value) == IF value = Nothing THEN <<>> ELSE value[1]

\* [tag] if tag else None
OneOrNone(value) == IF TagTruthy(value) THEN <<value[1]>> ELSE <<>>

MultiPropertyFilter(g, inst, intent) ==
    LET engine == get_semantic_engine(inst)
        crit == [roles          |-> OneOrNone(Get(intent, "role", Nothing)),
                 lanes          |-> OneOrNone(Get(intent, "lane", Nothing)),
                 cc_types       |-> ListOrNone(Get(intent, "cc_types", Nothing)),
                 effects        |-> ListOrNone(Get(intent, "ability_effects", Nothing)),
                 playstyles     |-> ListOrNone(Get(intent, "playstyles", Nothing)),
                 power_curves   |-> OneOrNone(Get(intent, "power_curve", Nothing)),
                 win_conditions |-> OneOrNone(Get(intent, "win_condition", Nothing)),
                 damage_type    |-> None,
                 explicit_empty |-> FALSE]
        Result(r) ==
            Out([query_type |-> "multi_property_filter",
                 criteria   |-> [roles           |-> Get(intent, "role", Nothing),
                                 lanes           |-> Get(intent, "lane", Nothing),
                                 cc_types        |-> Get(intent, "cc_types", Nothing),
                                 ability_effects |-> Get(intent, "ability_effects", Nothing),
                                 playstyles      |-> Get(intent, "playstyles", Nothing),
                                 power_curve     |-> Get(intent, "power_curve", Nothing),
                                 win_condition   |-> Get(intent, "win_condition", Nothing)],
                 champions  |-> r.ret,
                 count      |-> Len(r.ret),
                 sparql_queries |-> r.queries],
                r.queries, <<>>, engine, r.queries)
    IN  Result(multi_criteria_champion_search(g, crit))

\* the five CHAMPION_BY_* branches over a list slot: the error when the
\* list is missing, None or empty, else the lookup and the log
ChampionByList(g, inst, tags, message, query_type, r) ==
    LET engine == get_semantic_engine(inst)
    IN  IF ~PyTruthy(tags) THEN Out([error |-> message], <<>>, <<>>, engine, <<>>)
        ELSE Out([query_type |-> query_type, asked |-> tags[1], champions |-> r.ret,
                  count |-> Len(r.ret), sparql_queries |-> r.queries],
                 r.queries, <<>>, engine, r.queries)

\* the same over a single tag slot
ChampionByTag(g, inst, tag, message, query_type, r) ==
    LET engine == get_semantic_engine(inst)
    IN  IF ~TagTruthy(tag) THEN Out([error |-> message], <<>>, <<>>, engine, <<>>)
        ELSE Out([query_type |-> query_type, asked |-> tag[1], champions |-> r.ret,
                  count |-> Len(r.ret), sparql_queries |-> r.queries],
                 r.queries, <<>>, engine, r.queries)

ChampionSemanticProfile(store, g, inst, intent) ==
    LET engine == get_semantic_engine(inst)
        champion_name == Get(intent, "champion_name", Some(<<>>))
    IN  IF ~PyTruthy(champion_name)
        THEN Out([error |-> "No champion specified"], <<>>, <<>>, engine, <<>>)
        ELSE LET Result(r) ==
                     Out([query_type |-> "semantic_profile", profile |-> r.ret,
                          sparql_queries |-> r.queries],
                         r.queries, <<>>, engine, r.queries)
             IN  Result(get_champion_semantic_profile(
                            g, NormalizeTeam(store, <<champion_name[1]>>)[1]))

TopPicks == 10

TeamCounterAnalysis(store, g, inst, intent, rows) ==
    LET engine == get_semantic_engine(inst)
        enemy_champions == Get(intent, "enemy_champions", Some(<<>>))
    IN  IF ~PyTruthy(enemy_champions)
        THEN Out([error |-> "No enemy champions specified"], <<>>, <<>>, engine, <<>>)
        ELSE LET Picks(top) ==
                     [k \in 1..Len(top) |->
                         [champion |-> top[k][1], counters |-> top[k][2],
                          counter_count |-> Len(top[k][2])]]
                 Result(normalized_enemies, r) ==
                     Out([query_type        |-> "team_counter_analysis",
                          enemy_team        |-> normalized_enemies,
                          recommended_picks |->
                              Picks(SubSeq(r.ret, 1, IF Len(r.ret) < TopPicks
                                                     THEN Len(r.ret) ELSE TopPicks)),
                          total_options     |-> Len(r.ret),
                          sparql_queries    |-> r.queries],
                         r.queries, <<>>, engine, r.queries)
                 Coverage(normalized_enemies) ==
                     Result(normalized_enemies,
                            get_team_counter_coverage(g, normalized_enemies, rows))
             IN  Coverage(NormalizeTeam(store, enemy_champions[1]))

\* total_score > max_possible * 0.5, else > max_possible * 0.25
SynergyRating(total_score, max_possible) ==
    IF 2 * total_score > max_possible THEN "Strong"
    ELSE IF 4 * total_score > max_possible THEN "Moderate"
    ELSE "Weak"

\* get_team_synergy_score logs nothing: the result carries the cleared log
TeamSynergyAnalysis(store, g, inst, intent) ==
    LET engine == get_semantic_engine(inst)
        team_champions == Get(intent, "team_champions", Some(<<>>))
    IN  IF ~PyTruthy(team_champions)
        THEN Out([error |-> "No team champions specified"], <<>>, <<>>, engine, <<>>)
        ELSE LET Result(normalized_team, r) ==
                     IF Raised(r.ret) THEN Out(r.ret, <<>>, <<>>, engine, <<>>)
                     ELSE Out([query_type     |-> "team_synergy_analysis",
                               team           |-> normalized_team,
                               synergy_pairs  |-> r.ret.synergy_pairs,
                               total_score    |-> r.ret.total_score,
                               max_possible   |-> r.ret.max_possible,
                               synergy_rating |-> SynergyRating(r.ret.total_score,
                                                                r.ret.max_possible),
                               sparql_queries |-> r.queries],
                              r.queries, <<>>, engine,
                              IssuedAsks(g, normalized_team, PairSeq(Len(normalized_team))))
                 Score(normalized_team) ==
                     Result(normalized_team, get_team_synergy_score(g, normalized_team))
             IN  Score(NormalizeTeam(store, team_champions[1]))

\* one entry per loaded snapshot; the champion is "Unknown" without a user
get_available_games(snaps) ==
    [i \in 1..Len(snaps) |->
        LET user == get_user_player(snaps[i])
        IN  [index |-> i - 1,
             champion |-> IF user # <<>> THEN user[1].champion ELSE "Unknown",
             team |-> IF user # <<>> THEN user[1].team ELSE "Unknown"]]

SnapshotAnalysis(snaps, log, inst, intent) ==
    LET analyzer == get_snapshot_analyzer(inst)
        analysis_type == Get(intent, "snapshot_analysis_type", Some("full"))
        game_index == Get(intent, "game_index", Some(0))
        got == get_snapshot(snaps, game_index)
    IN  IF Raised(got) THEN Out(got, log, <<>>, analyzer, <<>>)
        ELSE IF ~PyTruthy(got.snapshot)
        THEN Out([error |-> "No game snapshot available. Please ensure game_snapshots.json exists."],
                 log, <<>>, analyzer, <<>>)
        ELSE LET Result(query_type, analysis) ==
                     IF Raised(analysis.ret)
                     THEN Out(analysis.ret, log, analysis.lookups, analyzer, <<>>)
                     ELSE Out([query_type |-> query_type, game_index |-> game_index,
                               analysis |-> analysis.ret],
                              log, analysis.lookups, analyzer, <<>>)
                 Chosen(snapshot) ==
                     IF analysis_type = Some("items")
                     THEN Result("snapshot_item_analysis",
                                 analyze_item_recommendations(snapshot))
                     ELSE IF analysis_type = Some("counters")
                     THEN Result("snapshot_counter_analysis",
                                 analyze_counter_strategies(snapshot))
                     ELSE IF analysis_type = Some("game_state")
                     THEN Result("snapshot_game_state_analysis", analyze_game_state(snapshot))
                     ELSE Result("snapshot_full_analysis", full_analysis(snapshot))
             IN  Chosen(got.snapshot[1])

CouldNotUnderstand == "Could not understand the query."

\* the branches of dispatch_query on the intent tag; rows is the order in
\* which the graph yields the rows of the counter queries
dispatch_query(store, g, snaps, log, inst, intent, rows) ==
    LET intent_type == Get(intent, "intent", Some("UNKNOWN"))
    IN  CASE intent_type = Some("CHAMPION_INFO") ->
                LET champion_name == Get(intent, "champion_name", Some(<<>>))
                IN  Out(get_champion_info(store, champion_name), log,
                        <<<<"get_champion_info", champion_name>>>>, inst, <<>>)
          [] intent_type = Some("MULTI_PROPERTY_FILTER") ->
                MultiPropertyFilter(g, inst, intent)
          [] intent_type = Some("CHAMPION_BY_CC") ->
                LET cc_types == Get(intent, "cc_types", Some(<<>>))
                IN  ChampionByList(g, inst, cc_types, "No CC type specified",
                                   "champions_by_cc",
                                   get_champions_by_cc_type(g, ListOrNone(cc_types)))
          [] intent_type = Some("CHAMPION_BY_EFFECT") ->
                LET effects == Get(intent, "ability_effects", Some(<<>>))
                IN  ChampionByList(g, inst, effects, "No ability effect specified",
                                   "champions_by_effect",
                                   get_champions_by_effects(g, ListOrNone(effects)))
          [] intent_type = Some("CHAMPION_BY_PLAYSTYLE") ->
                LET playstyles == Get(intent, "playstyles", Some(<<>>))
                IN  ChampionByList(g, inst, playstyles, "No playstyle specified",
                                   "champions_by_playstyle",
                                   get_champions_by_playstyle(g, ListOrNone(playstyles)))
          [] intent_type = Some("CHAMPION_BY_POWER_CURVE") ->
                LET power_curve == Get(intent, "power_curve", Nothing)
                IN  ChampionByTag(g, inst, power_curve, "No power curve specified",
                                  "champions_by_power_curve",
                                  get_champions_by_power_curve(g, power_curve[1]))
          [] intent_type = Some("CHAMPION_BY_WIN_CONDITION") ->
                LET win_condition == Get(intent, "win_condition", Nothing)
                IN  ChampionByTag(g, inst, win_condition, "No win condition specified",
                                  "champions_by_win_condition",
                                  get_champions_by_win_condition(g, win_condition[1]))
          [] intent_type = Some("CHAMPION_SEMANTIC_PROFILE") ->
                ChampionSemanticProfile(store, g, inst, intent)
          [] intent_type = Some("TEAM_COUNTER_ANALYSIS") ->
                TeamCounterAnalysis(store, g, inst, intent, rows)
          [] intent_type = Some("TEAM_SYNERGY_ANALYSIS") ->
                TeamSynergyAnalysis(store, g, inst, intent)
          [] intent_type = Some("SNAPSHOT_ANALYSIS") ->
                SnapshotAnalysis(snaps, log, inst, intent)
          [] intent_type = Some("GET_AVAILABLE_GAMES") ->
                Out([query_type |-> "available_games", games |-> get_available_games(snaps),
                     total_count |-> Len(snaps)],
                    log, <<>>, get_snapshot_analyzer(inst), <<>>)
          [] OTHER ->
                Out([error |-> CouldNotUnderstand, intent_detected |-> intent_type],
                    log, <<>>, inst, <<>>)

(***************************************************************************)
(* The dispatch specification: the data are loaded, then the chat loop     *)
(* dispatches one classified intent per request; the factories of the      *)
(* shared instances may also be called directly.                           *)
(***************************************************************************)
\* the parsed champion dictionary in insertion order: keys "a", "ab", "b"
ChampionStore ==
    <<[key |-> <<97>>, name |-> <<65>>],
      [key |-> <<97, 98>>, name |-> <<65, 98>>],
      [key |-> <<98>>, name |-> <<66>>]>>

RetrieverStores == {<<>>, ChampionStore}

DispatchFacts ==
    {<<"moba:A", "strongSynergyWith", "moba:Ab">>,
     <<"moba:A", "counteredBy", "moba:B">>,
     <<"moba:A", "hasCrowdControl", "StunCC">>}

WithUser ==
    [players |-> Roster("Blue", 4500, 5700), gold_diff |-> 501,
     blue_team_gold |-> 30501, red_team_gold |-> 30000]

WithoutUser ==
    [players |-> Present(Roster("Blue", 4500, 5700), {2, 3, 4}), gold_diff |-> 501,
     blue_team_gold |-> 30501, red_team_gold |-> 30000]

SnapshotFiles == {<<>>, <<WithUser>>, <<WithUser, WithoutUser>>}

\* names a classifier may extract: "A", "Ab", "", a lone double quote
SlotNames == {<<65>>, <<65, 98>>, <<>>, <<Quote>>}

NameLists == UNION {[1..n -> SlotNames] : n \in 0..MaxNames}

\* the dicts with the given tag and any of the given values for one slot,
\* the slot explicitly None, or the slot left out
WithSlot(tag, slot, values) ==
    {[intent |-> Some(tag)]} \cup
    {(slot :> v) @@ [intent |-> Some(tag)] : v \in {Nothing} \cup {Some(x) : x \in values}}

SnapshotIntents ==
    {[intent |-> Some("SNAPSHOT_ANALYSIS")]} \cup
    {[intent |-> Some("SNAPSHOT_ANALYSIS"), snapshot_analysis_type |-> t] :
        t \in {Nothing, Some("items"), Some("counters"), Some("game_state"), Some("full")}} \cup
    {[intent |-> Some("SNAPSHOT_ANALYSIS"), snapshot_analysis_type |-> t, game_index |-> i] :
        t \in {Some("game_state"), Some("full")},
        i \in {Nothing, Some(0), Some(1), Some(2), Some(-1)}}

FilterIntents ==
    {[intent |-> Some("MULTI_PROPERTY_FILTER")],
     [intent |-> Some("MULTI_PROPERTY_FILTER"), role |-> Nothing, cc_types |-> Nothing],
     [intent |-> Some("MULTI_PROPERTY_FILTER"), cc_types |-> Some(<<"Stun">>)],
     [intent |-> Some("MULTI_PROPERTY_FILTER"), role |-> Some("TankRole"),
      cc_types |-> Some(<<"Stun">>)],
     [intent |-> Some("MULTI_PROPERTY_FILTER"), ability_effects |-> Some(<<"Da sh">>)]}

UnknownIntents ==
    {<<>>, [intent |-> Nothing], [intent |-> Some("FOO")],
     [intent |-> Some("FOO"), champion_name |-> Some(<<65>>)]}

Intents ==
    WithSlot("CHAMPION_INFO", "champion_name", {<<65>>, <<>>, <<90>>, <<Quote>>}) \cup
    WithSlot("CHAMPION_SEMANTIC_PROFILE", "champion_name", {<<65>>, <<>>, <<90>>, <<Quote>>}) \cup
    WithSlot("CHAMPION_BY_CC", "cc_types", {<<>>, <<"Stun">>, <<"Stun", "Knockup">>}) \cup
    WithSlot("CHAMPION_BY_EFFECT", "ability_effects", {<<>>, <<"Dash">>, <<"Da sh">>}) \cup
    WithSlot("CHAMPION_BY_PLAYSTYLE", "playstyles", {<<>>, <<"Burst">>}) \cup
    WithSlot("CHAMPION_BY_POWER_CURVE", "power_curve", {"", "LateGame"}) \cup
    WithSlot("CHAMPION_BY_WIN_CONDITION", "win_condition", {"", "Teamfight"}) \cup
    WithSlot("TEAM_COUNTER_ANALYSIS", "enemy_champions", NameLists) \cup
    WithSlot("TEAM_SYNERGY_ANALYSIS", "team_champions", NameLists) \cup
    {[intent |-> Some("GET_AVAILABLE_GAMES")]} \cup
    FilterIntents \cup SnapshotIntents \cup UnknownIntents

\* the row orders the graph may produce for the counter queries of an intent
RowChoices(store, g, intent) ==
    IF /\ Get(intent, "intent", Nothing) = Some("TEAM_COUNTER_ANALYSIS")
       /\ PyTruthy(Get(intent, "enemy_champions", Nothing))
    THEN RowOrders(g, NormalizeTeam(store, intent["enemy_champions"][1]))
    ELSE {<<>>}

InitDispatch ==
    /\ graph \in SUBSET DispatchFacts
    /\ champions \in RetrieverStores
    /\ items = <<>>
    /\ NoSession
    /\ snapshots \in SnapshotFiles
    /\ last_queries = <<>>
    /\ retriever_log = <<>>
    /\ instances = NoInstances
    /\ call = NoCall
    /\ result = <<>>

\* a variant in which serving a request drops the loaded snapshots
LoadedDataDropped ==
    /\ snapshots' = <<>>
    /\ UNCHANGED <<graph, champions, items>>

\* no statement reachable from dispatch_query assigns to the graph, to the
\* snapshot list or a snapshot, or to the champion dictionary
LoadedDataKept == UNCHANGED <<graph, snapshots, champions, items>>

Dispatch ==
    /\ call = NoCall
    /\ \E intent \in Intents :
        \E rows \in RowChoices(champions, graph, intent) :
            \E r \in {dispatch_query(champions, graph, snapshots, last_queries, instances,
                                     intent, rows)} :
                /\ call' = [op |-> "dispatch_query", args |-> intent, issued |-> r.issued]
                /\ result' = r.ret
                /\ last_queries' = r.last_queries
                /\ retriever_log' = r.lookups
                /\ instances' = r.instances
                /\ LoadedDataKept
                /\ UNCHANGED session

\* a direct call of sparql_queries.get_query_engine, with or without files
GetQueryEngine ==
    /\ call = NoCall
    /\ \E champions_ttl \in {Nothing, Some("other.ttl")} :
        LET made == get_query_engine(instances, champions_ttl)
        IN  /\ call' = [op |-> "get_query_engine", args |-> champions_ttl]
            /\ result' = [instance |-> made.engine]
            /\ instances' = made
            /\ UNCHANGED <<graph, last_queries, snapshots, retriever_log, champions, items, session>>

GetSemanticEngine ==
    /\ call = NoCall
    /\ LET made == get_semantic_engine(instances)
       IN  /\ call' = [op |-> "get_semantic_engine", args |-> <<>>]
           /\ result' = [instance |-> made.semantic_engine]
           /\ instances' = made
           /\ UNCHANGED <<graph, last_queries, snapshots, retriever_log, champions, items, session>>

GetSnapshotAnalyzer ==
    /\ call = NoCall
    /\ LET made == get_snapshot_analyzer(instances)
       IN  /\ call' = [op |-> "get_snapshot_analyzer", args |-> <<>>]
           /\ result' = [instance |-> made.snapshot_analyzer]
           /\ instances' = made
           /\ UNCHANGED <<graph, last_queries, snapshots, retriever_log, champions, items, session>>

NextDispatch ==
    \/ NextRequest
    \/ Dispatch
    \/ GetQueryEngine
    \/ GetSemanticEngine
    \/ GetSnapshotAnalyzer

SpecDispatch == InitDispatch /\ [][NextDispatch]_vars

(***************************************************************************)
(* Properties of dispatch_query.                                           *)
(***************************************************************************)
Dispatched == call.op = "dispatch_query"

TagOf(intent) == Get(intent, "intent", Some("UNKNOWN"))

KnownTags ==
    {"CHAMPION_INFO", "MULTI_PROPERTY_FILTER", "CHAMPION_BY_CC", "CHAMPION_BY_EFFECT",
     "CHAMPION_BY_PLAYSTYLE", "CHAMPION_BY_POWER_CURVE", "CHAMPION_BY_WIN_CONDITION",
     "CHAMPION_SEMANTIC_PROFILE", "TEAM_COUNTER_ANALYSIS", "TEAM_SYNERGY_ANALYSIS",
     "SNAPSHOT_ANALYSIS", "GET_AVAILABLE_GAMES"}

IsKnown(tag) == tag # Nothing /\ tag[1] \in KnownTags

\* C12 as stated: dispatch_query never raises, for any tag and any slots
\* missing or None; it returns a result with an error field or a payload,
\* and for an unknown tag the "could not understand" error with the tag.
C12_DispatchTotal ==
    Dispatched =>
        /\ ~Raised(result)
        /\ ~IsKnown(TagOf(call.args)) =>
               result = [error |-> CouldNotUnderstand, intent_detected |-> TagOf(call.args)]

\* an unknown tag is answered with the error and the detected tag
C12_WitnessUnknown ==
    /\ Dispatched
    /\ call.args = [intent |-> Some("FOO")]
    /\ result = [error |-> CouldNotUnderstand, intent_detected |-> Some("FOO")]

\* the name looked up is the empty string
EmptyNameLookup ==
    /\ Dispatched
    /\ TagOf(call.args) = Some("CHAMPION_INFO")
    /\ Get(call.args, "champion_name", Some(<<>>)) = Some(<<>>)

\* C13 as stated: a CHAMPION_INFO lookup on the empty name (the slot is
\* missing) finds no champion and returns a "not found" error, never the
\* data of some champion of the store.
C13_NoDefaultEntity ==
    EmptyNameLookup =>
        /\ "error" \in DOMAIN result
        /\ "champion" \notin DOMAIN result

\* a name that is part of no key and contains none is reported not found
C13_WitnessNotFound ==
    /\ Dispatched
    /\ call.args = [intent |-> Some("CHAMPION_INFO"), champion_name |-> Some(<<90>>)]
    /\ champions = ChampionStore
    /\ result = [error |-> "Champion not found", champion_name |-> Some(<<90>>)]

(***************************************************************************)
(* Properties of the engine's failure handling and of the query log.       *)
(***************************************************************************)
\* C14 as stated: get_team_synergy_score returns normally when a pair
\* query is malformed; the failed query counts as no edge and no failure
\* reaches the caller.
C14_NoFailurePropagates ==
    call.op = "get_team_synergy_score" =>
        /\ ~Raised(result)
        /\ (\E i \in 1..Len(call.args) : HasQuote(call.args[i])) =>
               result.total_score = 0 /\ result.synergy_pairs = <<>>

SemanticTags ==
    {"MULTI_PROPERTY_FILTER", "CHAMPION_BY_CC", "CHAMPION_BY_EFFECT",
     "CHAMPION_BY_PLAYSTYLE", "CHAMPION_BY_POWER_CURVE", "CHAMPION_BY_WIN_CONDITION",
     "CHAMPION_SEMANTIC_PROFILE", "TEAM_COUNTER_ANALYSIS", "TEAM_SYNERGY_ANALYSIS"}

\* a semantic dispatch that returned its payload
SemanticPayload ==
    /\ Dispatched
    /\ IsKnown(TagOf(call.args))
    /\ TagOf(call.args)[1] \in SemanticTags
    /\ "sparql_queries" \in DOMAIN result

\* C15 as stated: the sparql_queries of a semantic dispatch result are
\* exactly the queries the engine sent to the graph during that dispatch,
\* in order, and none of an earlier dispatch; so they are non-empty
\* whenever a query was sent.
C15_LogIsIssuedQueries ==
    SemanticPayload =>
        /\ result.sparql_queries = call.issued
        /\ call.issued # <<>> => result.sparql_queries # <<>>

\* a counter analysis whose result lists the one query it sent
C15_WitnessCounter ==
    /\ SemanticPayload
    /\ TagOf(call.args) = Some("TEAM_COUNTER_ANALYSIS")
    /\ Len(result.sparql_queries) = 1
    /\ result.sparql_queries = call.issued
    /\ result.recommended_picks # <<>>

FactoryOps == {"get_query_engine", "get_semantic_engine", "get_snapshot_analyzer"}

\* C17: at most one engine and one analyzer are ever constructed, the
\* globals once set keep naming the first instance, and every call of a
\* factory returns that first instance, whatever its arguments.
C17_SharedInstancesOnce ==
    /\ instances.engines_built <= 1
    /\ instances.analyzers_built <= 1
    /\ instances.engine \in {0, 1}
    /\ instances.semantic_engine \in {0, instances.engine}
    /\ instances.snapshot_analyzer \in {0, 1}
    /\ call.op \in FactoryOps => result.instance = 1

\* get_query_engine is called with file names after a dispatch had already
\* created the engine, and returns the engine of that dispatch
C17_Witness ==
    /\ call.op = "get_query_engine"
    /\ call.args = Some("other.ttl")
    /\ instances.semantic_engine = 1
    /\ instances.snapshot_analyzer = 1
    /\ result.instance = 1

(***************************************************************************)
(* Item recommendations.  Item and champion names are Python strings:      *)
(* sequences of character codes, so that lower(), replace() and the        *)
(* substring tests are computed.  The item dictionary is the sequence of   *)
(* its entries in dictionary order; a gold cost is None or one number.     *)
(***************************************************************************)
\* str.replace(old, new): left to right, occurrences do not overlap
RECURSIVE Replace(_, _, _)
Replace(name, old, new) ==
    IF Len(name) < Len(old) THEN name
    ELSE IF SubSeq(name, 1, Len(old)) = old
    THEN new \o Replace(SubSeq(name, Len(old) + 1, Len(name)), old, new)
    ELSE <<Head(name)>> \o Replace(Tail(name), old, new)

\* get_build.format_items: replace("_", " ").replace("s ", "'s ")
format_items(item_names) ==
    [i \in 1..Len(item_names) |->
        Replace(Replace(item_names[i], <<95>>, <<32>>), <<115, 32>>, <<39, 115, 32>>)]

\* the build of the champion found, its core items formatted
get_build(store, champion_name) ==
    LET Build(found) ==
            IF Raised(found) THEN found
            ELSE IF found.champ = Nothing
            THEN [error |-> "Champion not found", champion_name |-> champion_name]
            ELSE [champion   |-> found.champ[1].name,
                  core_items |-> format_items(Get(found.champ[1], "core_items", <<>>))]
    IN  Build(find_champion(store, Some(champion_name)))

\* DataRetriever._normalize_name
normalize_name(name) ==
    IF name = <<>> THEN <<>>
    ELSE Replace(Replace(Replace(Strip(Lower(name)), <<32>>, <<95>>), <<39>>, <<>>),
                 <<45>>, <<95>>)

\* None for the empty name; the direct lookup; then the first entry in
\* dictionary order whose key contains or is contained in the normalized
\* name or whose name equals the given one in lower case
find_item(catalogue, name) ==
    LET Lookup(normalized) ==
            LET direct == {i \in 1..Len(catalogue) : catalogue[i].key = normalized}
                hits == {i \in 1..Len(catalogue) :
                            \/ IsSubstring(normalized, catalogue[i].key)
                            \/ IsSubstring(catalogue[i].key, normalized)
                            \/ Lower(catalogue[i].name) = Lower(name)}
            IN  IF name = <<>> THEN Nothing
                ELSE IF direct # {} THEN Some(catalogue[Min(direct)])
                ELSE IF hits = {} THEN Nothing
                ELSE Some(catalogue[Min(hits)])
    IN  Lookup(normalize_name(name))

\* name and gold cost of the item found, or the error
get_item_info(catalogue, item_name) ==
    LET Info(item) ==
            IF item = Nothing THEN [error |-> "Item not found", item_name |-> item_name]
            ELSE [name |-> item[1].name, gold_cost |-> Get(item[1], "gold_cost", Nothing)]
    IN  Info(find_item(catalogue, item_name))

\* item_info.get("gold_cost") or item_info.get("total_cost", 0), for an
\* info without error: it has no total_cost, so a missing or zero gold
\* cost gives 0; an error counts as 0
InfoCost(item_info) ==
    IF "error" \in DOMAIN item_info THEN 0
    ELSE IF item_info.gold_cost # Nothing /\ item_info.gold_cost[1] # 0
    THEN item_info.gold_cost[1]
    ELSE 0

\* _estimate_spent_gold
RECURSIVE estimate_spent_gold(_, _)
estimate_spent_gold(catalogue, item_names) ==
    IF item_names = <<>> THEN 0
    ELSE InfoCost(get_item_info(catalogue, Head(item_names)))
             + estimate_spent_gold(catalogue, Tail(item_names))

\* str(value) of a string that may be None
Str(value) == IF value = Nothing THEN <<78, 111, 110, 101>> ELSE value[1]

\* word in str(roles), for a word without quote or comma
InRoles(word, roles) == \E i \in 1..Len(roles) : IsSubstring(word, roles[i])

\* _get_champion_details: the info, or a default naming the champion
get_champion_details(store, champion_name) ==
    LET Details(info) ==
            IF "error" \in DOMAIN info
            THEN [name |-> champion_name, roles |-> <<>>, damage_type |-> Some(<<85, 110, 107, 110, 111, 119, 110>>)]
            ELSE info
    IN  Details(get_champion_info(store, Some(champion_name)))

\* sorted(threats, key=gold, reverse=True): threats of equal gold keep
\* their order
RECURSIVE SortThreats(_)
SortThreats(threats) ==
    IF threats = <<>> THEN <<>>
    ELSE LET rest == SortThreats(Tail(threats))
             above == SelectSeq(rest, LAMBDA t : t.gold > Head(threats).gold)
         IN  above \o <<Head(threats)>> \o SubSeq(rest, Len(above) + 1, Len(rest))

\* High, Medium or None from level and gold
ThreatLevel(enemy) ==
    IF enemy.level >= 10 \/ enemy.total_gold > 4500 THEN Some("High")
    ELSE IF enemy.level >= 8 \/ enemy.total_gold > 3500 THEN Some("Medium")
    ELSE Nothing

\* Magic damage or a mage
IsAp(info) ==
    /\ "error" \notin DOMAIN info
    /\ \/ IsSubstring(<<77, 97, 103, 105, 99>>, Str(info.damage_type))
       \/ IsSubstring(<<77, 97, 103, 101>>, Str(info.hero_type))

\* otherwise Physical or Attack damage
IsAd(info) ==
    /\ "error" \notin DOMAIN info
    /\ ~IsAp(info)
    /\ \/ IsSubstring(<<80, 104, 121, 115, 105, 99, 97, 108>>, Str(info.damage_type))
       \/ IsSubstring(<<65, 116, 116, 97, 99, 107>>, Str(info.damage_type))

IsTank(info) ==
    /\ "error" \notin DOMAIN info
    /\ \/ IsSubstring(<<84, 97, 110, 107>>, Str(info.hero_type))
       \/ InRoles(<<84, 97, 110, 107, 82, 111, 108, 101>>, info.roles)

IsAssassin(info) ==
    /\ "error" \notin DOMAIN info
    /\ \/ IsSubstring(<<65, 115, 115, 97, 115, 115, 105, 110>>, Str(info.hero_type))
       \/ InRoles(<<65, 115, 115, 97, 115, 115, 105, 110, 82, 111, 108, 101>>, info.roles)

\* the names of the enemies whose champion info passes the test, in order
Category(store, enemies, Test(_)) ==
    LET chosen == SelectSeq(enemies,
                            LAMBDA e : Test(get_champion_info(store, Some(e.champion))))
    IN  [i \in 1..Len(chosen) |-> chosen[i].champion]

\* the fed enemies in snapshot order
Threats(enemies) ==
    LET fed == SelectSeq(enemies, LAMBDA e : ThreatLevel(e) # Nothing)
    IN  [i \in 1..Len(fed) |->
            [champion     |-> fed[i].champion,
             level        |-> fed[i].level,
             gold         |-> fed[i].total_gold,
             threat_level |-> ThreatLevel(fed[i])[1],
             position     |-> ROLE_POSITIONS[fed[i].participant_id]]]

\* _analyze_enemy_composition: the categories of the enemies the retriever
\* knows, the fed enemies sorted by gold, and as primary threat the first
\* fed enemy in snapshot order
analyze_enemy_composition(store, enemies) ==
    LET threats == Threats(enemies)
        ap_champions == Category(store, enemies, IsAp)
        ad_champions == Category(store, enemies, IsAd)
        assassins == Category(store, enemies, IsAssassin)
        tanks == Category(store, enemies, IsTank)
    IN  [ap_heavy       |-> Len(ap_champions) >= 3,
         ad_heavy       |-> Len(ad_champions) >= 3,
         ap_champions   |-> ap_champions,
         ad_champions   |-> ad_champions,
         tanks          |-> tanks,
         assassins      |-> assassins,
         has_assassins  |-> Len(assassins) > 0,
         has_tanks      |-> Len(tanks) > 0,
         threats        |-> SortThreats(threats),
         primary_threat |-> IF threats = <<>> THEN Nothing ELSE Some(threats[1])]

\* some item of the list (in lower case) contains one of the words
OwnsAny(words, items_lower) ==
    \E i \in 1..Len(items_lower) : \E w \in words : IsSubstring(w, items_lower[i])

\* boots, greaves, steelcaps, treads, shoes
BootsWords == {<<98, 111, 111, 116, 115>>, <<103, 114, 101, 97, 118, 101, 115>>, <<115, 116, 101, 101, 108, 99, 97, 112, 115>>, <<116, 114, 101, 97, 100, 115>>, <<115, 104, 111, 101, 115>>}

\* the roster of healing champions, in lower case
healing_champs ==
    {<<97, 97, 116, 114, 111, 120>>, <<118, 108, 97, 100, 105, 109, 105, 114>>, <<115, 121, 108, 97, 115>>, <<115, 119, 97, 105, 110>>, <<115, 111, 114, 97, 107, 97>>, <<121, 117, 117, 109, 105>>, <<115, 111, 110, 97>>,
     <<110, 97, 109, 105>>, <<100, 114, 46, 32, 109, 117, 110, 100, 111>>, <<119, 97, 114, 119, 105, 99, 107>>, <<102, 105, 100, 100, 108, 101, 115, 116, 105, 99, 107, 115>>, <<105, 108, 108, 97, 111, 105>>}

\* "heal" in str(champ_info).lower(): the keys of the info hold no such
\* word; its strings are the names of the champion, type, damage type,
\* roles and base statistics
MentionsHeal(champ_info) ==
    LET One(key) == IF key \in DOMAIN champ_info THEN {champ_info[key]} ELSE {}
        Opt(key) == IF key \in DOMAIN champ_info /\ champ_info[key] # Nothing
                    THEN {champ_info[key][1]} ELSE {}
        Each(key) == IF key \in DOMAIN champ_info
                     THEN {champ_info[key][i] : i \in 1..Len(champ_info[key])} ELSE {}
        texts == One("champion") \cup One("name") \cup Opt("hero_type")
                     \cup Opt("damage_type") \cup Each("roles") \cup Each("base_stats")
    IN  \E t \in texts : IsSubstring(<<104, 101, 97, 108>>, Lower(t))

Recommendation(item, priority, gold_cost) ==
    [item |-> item, priority |-> priority, gold_cost |-> gold_cost]

\* the words that mark an anti-heal item among the current items
AntihealWords == {<<116, 104, 111, 114, 110, 109, 97, 105, 108>>, <<109, 111, 114, 116, 97, 108>>, <<111, 98, 108, 105, 118, 105, 111, 110>>, <<112, 117, 116, 114, 105, 102, 105, 101, 114>>}

\* the anti-heal recommendation: generated when a name of the roster
\* occurs among the champions of the threat list and no current item
\* carries an anti-heal word
antiheal_recommendation(enemy_analysis, current_items_lower, champ_info) ==
    LET threats == enemy_analysis.threats
        needs_antiheal ==
            \E h \in healing_champs :
                \E i \in 1..Len(threats) : IsSubstring(h, Lower(threats[i].champion))
    IN  IF needs_antiheal /\ ~OwnsAny(AntihealWords, current_items_lower)
        THEN <<Recommendation(IF InRoles(<<84, 97, 110, 107>>, Get(champ_info, "roles", <<>>))
                              THEN <<84, 104, 111, 114, 110, 109, 97, 105, 108>> ELSE <<77, 111, 114, 116, 97, 108, 32, 82, 101, 109, 105, 110, 100, 101, 114>>,
                              "situational", 2700)>>
        ELSE <<>>

\* the recommendations in the order they are generated: boots, the core
\* items not owned, the counter item against the primary threat, the
\* anti-heal item, the two magic-resist items, the two armor items
generated_recommendations(store, catalogue, champion_build, current_items, enemy_analysis, champ_info) ==
    LET current_items_lower == [i \in 1..Len(current_items) |-> Lower(current_items[i])]
        has_boots == OwnsAny(BootsWords, current_items_lower)
        boots ==
            IF has_boots THEN <<>>
            ELSE <<Recommendation(
                       IF enemy_analysis.ap_heavy THEN <<77, 101, 114, 99, 117, 114, 121, 39, 115, 32, 84, 114, 101, 97, 100, 115>>
                       ELSE IF enemy_analysis.ad_heavy \/ enemy_analysis.has_assassins
                       THEN <<80, 108, 97, 116, 101, 100, 32, 83, 116, 101, 101, 108, 99, 97, 112, 115>>
                       ELSE <<73, 111, 110, 105, 97, 110, 32, 66, 111, 111, 116, 115, 32, 111, 102, 32, 76, 117, 99, 105, 100, 105, 116, 121>>,
                       "essential", 1100)>>
        Missing(item) ==
            ~\E i \in 1..Len(current_items_lower) :
                \/ IsSubstring(Lower(item), current_items_lower[i])
                \/ IsSubstring(current_items_lower[i], Lower(item))
        CoreCost(item) == InfoCost(get_item_info(catalogue, item))
        missing_core == SelectSeq(champion_build.core_items, Missing)
        core == [i \in 1..Len(missing_core) |->
                    Recommendation(missing_core[i], "core", CoreCost(missing_core[i]))]
        primary_threat == enemy_analysis.primary_threat
        threat_info == get_champion_details(store, primary_threat[1].champion)
        threat_damage == Str(Get(threat_info, "damage_type", Some(<<>>)))
        counter ==
            IF primary_threat = Nothing THEN <<>>
            ELSE IF /\ IsSubstring(<<77, 97, 103, 105, 99>>, threat_damage)
                    /\ ~OwnsAny({<<115, 112, 105, 114, 105, 116>>, <<102, 111, 114, 99, 101, 32, 111, 102, 32, 110, 97, 116, 117, 114, 101>>, <<109, 97, 119>>},
                                current_items_lower)
            THEN <<Recommendation(IF MentionsHeal(champ_info) THEN <<83, 112, 105, 114, 105, 116, 32, 86, 105, 115, 97, 103, 101>>
                                  ELSE <<70, 111, 114, 99, 101, 32, 111, 102, 32, 78, 97, 116, 117, 114, 101>>,
                                  "situational", 2900)>>
            ELSE IF /\ IsSubstring(<<80, 104, 121, 115, 105, 99, 97, 108>>, threat_damage)
                    /\ ~OwnsAny({<<116, 104, 111, 114, 110, 109, 97, 105, 108>>, <<114, 97, 110, 100, 117, 105, 110>>, <<100, 101, 97, 100, 32, 109, 97, 110>>},
                                current_items_lower)
            THEN <<Recommendation(IF Get(threat_info, "is_ranged", Nothing) = Some(TRUE)
                                  THEN <<82, 97, 110, 100, 117, 105, 110, 39, 115, 32, 79, 109, 101, 110>> ELSE <<84, 104, 111, 114, 110, 109, 97, 105, 108>>,
                                  "situational", 2700)>>
            ELSE <<>>
        antiheal == antiheal_recommendation(enemy_analysis, current_items_lower, champ_info)
        mr_items ==
            IF /\ enemy_analysis.ap_heavy
               /\ ~OwnsAny({<<115, 112, 105, 114, 105, 116>>, <<102, 111, 114, 99, 101>>, <<109, 97, 119>>}, current_items_lower)
            THEN <<Recommendation(<<83, 112, 105, 114, 105, 116, 32, 86, 105, 115, 97, 103, 101>>, "defensive", 2900),
                   Recommendation(<<70, 111, 114, 99, 101, 32, 111, 102, 32, 78, 97, 116, 117, 114, 101>>, "defensive", 2900)>>
            ELSE <<>>
        armor_items ==
            IF /\ enemy_analysis.ad_heavy
               /\ ~OwnsAny({<<116, 104, 111, 114, 110, 109, 97, 105, 108>>, <<114, 97, 110, 100, 117, 105, 110>>, <<100, 101, 97, 100, 32, 109, 97, 110>>}, current_items_lower)
            THEN <<Recommendation(<<84, 104, 111, 114, 110, 109, 97, 105, 108>>, "defensive", 2700),
                   Recommendation(<<82, 97, 110, 100, 117, 105, 110, 39, 115, 32, 79, 109, 101, 110>>, "defensive", 2700)>>
            ELSE <<>>
    IN  boots \o core \o counter \o antiheal \o mr_items \o armor_items

\* a variant that keeps the last recommendation of every item name
RECURSIVE unique_recommendations_last(_)
unique_recommendations_last(recommendations) ==
    IF recommendations = <<>> THEN <<>>
    ELSE LET rest == Tail(recommendations)
         IN  (IF \E i \in 1..Len(rest) : rest[i].item = Head(recommendations).item
              THEN <<>> ELSE <<Head(recommendations)>>)
                 \o unique_recommendations_last(rest)

\* the loop over seen: the first recommendation of every item name
RECURSIVE unique_recommendations(_)
unique_recommendations(recommendations) ==
    IF recommendations = <<>> THEN <<>>
    ELSE LET n == Len(recommendations)
             last == recommendations[n]
             front == SubSeq(recommendations, 1, n - 1)
         IN  unique_recommendations(front) \o
                 (IF \E i \in 1..(n - 1) : front[i].item = last.item THEN <<>> ELSE <<last>>)

\* a variant that ranks the core tier before the essential one
priority_order_core_first ==
    [priority \in {"essential", "core", "situational", "defensive"} |->
        CASE priority = "essential"   -> 1
          [] priority = "core"        -> 0
          [] priority = "situational" -> 2
          [] priority = "defensive"   -> 3]

priority_order ==
    [priority \in {"essential", "core", "situational", "defensive"} |->
        CASE priority = "essential"   -> 0
          [] priority = "core"        -> 1
          [] priority = "situational" -> 2
          [] priority = "defensive"   -> 3]

\* the sort key (tier, gold cost) compared as Python compares tuples
KeyBefore(a, b) ==
    \/ priority_order[a.priority] < priority_order[b.priority]
    \/ /\ priority_order[a.priority] = priority_order[b.priority]
       /\ a.gold_cost < b.gold_cost

\* list.sort(key=...): ascending, recommendations of equal key keep their
\* order
RECURSIVE SortRecommendations(_)
SortRecommendations(recommendations) ==
    IF recommendations = <<>> THEN <<>>
    ELSE LET n == Len(recommendations)
             last == recommendations[n]
             front == SortRecommendations(SubSeq(recommendations, 1, n - 1))
             stay == SelectSeq(front, LAMBDA r : ~KeyBefore(last, r))
         IN  stay \o <<last>> \o SubSeq(front, Len(stay) + 1, Len(front))

MaxSuggestions == 8

\* _generate_detailed_item_recommendations: the generated recommendations
\* without duplicates, sorted, the first eight
generate_detailed_item_recommendations(store, catalogue, champion_build, current_items, enemy_analysis, champ_info) ==
    LET sorted == SortRecommendations(unique_recommendations(
                      generated_recommendations(store, catalogue, champion_build,
                                                current_items, enemy_analysis, champ_info)))
    IN  SubSeq(sorted, 1, Min({MaxSuggestions, Len(sorted)}))

\* the component items and their gold cost
components ==
    <<[item |-> <<76, 111, 110, 103, 32, 83, 119, 111, 114, 100>>, gold_cost |-> 350],
      [item |-> <<65, 109, 112, 108, 105, 102, 121, 105, 110, 103, 32, 84, 111, 109, 101>>, gold_cost |-> 435],
      [item |-> <<82, 117, 98, 121, 32, 67, 114, 121, 115, 116, 97, 108>>, gold_cost |-> 400],
      [item |-> <<67, 108, 111, 116, 104, 32, 65, 114, 109, 111, 114>>, gold_cost |-> 300],
      [item |-> <<78, 117, 108, 108, 45, 77, 97, 103, 105, 99, 32, 77, 97, 110, 116, 108, 101>>, gold_cost |-> 450],
      [item |-> <<66, 111, 111, 116, 115>>, gold_cost |-> 300],
      [item |-> <<67, 111, 110, 116, 114, 111, 108, 32, 87, 97, 114, 100>>, gold_cost |-> 75]>>

Purchase(item, gold_cost, type) == [item |-> item, gold_cost |-> gold_cost, type |-> type]

MaxPurchases == 5

\* a variant that lists every recommendation, affordable or not
get_immediate_purchases_all(available_gold, recommendations, current_items) ==
    LET immediate == [i \in 1..Len(recommendations) |->
                         Purchase(recommendations[i].item, recommendations[i].gold_cost,
                                  "complete")]
    IN  SubSeq(immediate, 1, Min({MaxPurchases, Len(immediate)}))

\* _get_immediate_purchases: the affordable recommendations; with none of
\* them or with less than 1000 gold, also the affordable components whose
\* name is not an owned item; the first five
get_immediate_purchases(available_gold, recommendations, current_items) ==
    LET affordable == SelectSeq(recommendations, LAMBDA r : r.gold_cost <= available_gold)
        complete == [i \in 1..Len(affordable) |->
                        Purchase(affordable[i].item, affordable[i].gold_cost, "complete")]
        current_lower == {Lower(current_items[i]) : i \in 1..Len(current_items)}
        parts == SelectSeq(components,
                           LAMBDA c : /\ c.gold_cost <= available_gold
                                      /\ Lower(c.item) \notin current_lower)
        immediate ==
            IF complete = <<>> \/ available_gold < 1000
            THEN complete \o [i \in 1..Len(parts) |->
                                 Purchase(parts[i].item, parts[i].gold_cost, "component")]
            ELSE complete
    IN  SubSeq(immediate, 1, Min({MaxPurchases, Len(immediate)}))

\* max(a, b)
Max(a, b) == IF a >= b THEN a ELSE b

\* available_gold = max(0, total_gold - spent_gold)
AvailableGold(total_gold, spent_gold) == Max(0, total_gold - spent_gold)

\* analyze_item_recommendations, its item fields: gold, build, enemy
\* composition, suggestions and immediate purchases
item_recommendations(store, catalogue, snapshot) ==
    LET user == get_user_player(snapshot)
        champion_name == user[1].champion
        current_items == user[1].items
        total_gold == user[1].total_gold
        build == get_build(store, champion_name)
        champion_build == IF "error" \in DOMAIN build THEN [core_items |-> <<>>] ELSE build
        champ_info == get_champion_details(store, champion_name)
        enemy_analysis == analyze_enemy_composition(store, get_enemies(snapshot))
        available_gold == AvailableGold(total_gold, estimate_spent_gold(catalogue, current_items))
        recommendations ==
            generate_detailed_item_recommendations(store, catalogue, champion_build,
                                                   current_items, enemy_analysis, champ_info)
    IN  IF user = <<>> THEN UserNotFound
        ELSE [champion                 |-> champion_name,
              current_items            |-> current_items,
              total_gold               |-> total_gold,
              estimated_available_gold |-> available_gold,
              core_items               |-> champion_build.core_items,
              next_item_suggestions    |-> recommendations,
              immediate_purchases      |->
                  get_immediate_purchases(available_gold, recommendations, current_items),
              enemy_composition        |-> enemy_analysis]

(***************************************************************************)
(* The item analyses explored: the user (Garen, whom the retriever knows   *)
(* as a tank, or Teemo, whom it does not know) with one of five item       *)
(* lists and gold at the purchase thresholds, an ally, and an enemy team   *)
(* that fills the first positions, each with one of three players.  The    *)
(* retriever knows the user's build up to a number of core items.          *)
(***************************************************************************)
MaxEnemies == 3

MaxCore == 5

Champion(key, name, hero_type, damage_type, is_ranged, roles, core_items) ==
    [key |-> key, name |-> name, hero_type |-> Some(hero_type),
     damage_type |-> Some(damage_type), is_ranged |-> Some(is_ranged), roles |-> roles,
     base_stats |-> <<<<104, 101, 97, 108, 116, 104>>, <<97, 114, 109, 111, 114>>>>, core_items |-> core_items]

\* the core items of the build, as the graph names them
CoreItems ==
    <<<<83, 116, 114, 105, 100, 101, 98, 114, 101, 97, 107, 101, 114>>, <<68, 101, 97, 100, 95, 77, 97, 110, 115, 95, 80, 108, 97, 116, 101>>, <<83, 116, 101, 114, 97, 107, 115, 95, 71, 97, 103, 101>>, <<66, 108, 97, 99, 107, 95, 67, 108, 101, 97, 118, 101, 114>>,
      <<84, 114, 105, 110, 105, 116, 121, 95, 70, 111, 114, 99, 101>>, <<84, 104, 111, 114, 110, 109, 97, 105, 108>>, <<70, 111, 114, 99, 101, 95, 111, 102, 95, 78, 97, 116, 117, 114, 101>>>>

ItemChampions(core) ==
    <<Champion(<<103, 97, 114, 101, 110>>, <<71, 97, 114, 101, 110>>, <<70, 105, 103, 104, 116, 101, 114>>, <<80, 104, 121, 115, 105, 99, 97, 108>>, FALSE,
               <<<<70, 105, 103, 104, 116, 101, 114, 82, 111, 108, 101>>, <<84, 97, 110, 107, 82, 111, 108, 101>>>>, SubSeq(CoreItems, 1, core)),
      Champion(<<97, 104, 114, 105>>, <<65, 104, 114, 105>>, <<77, 97, 103, 101>>, <<77, 97, 103, 105, 99>>, TRUE, <<<<77, 97, 103, 101, 82, 111, 108, 101>>>>, <<>>),
      Champion(<<118, 108, 97, 100, 105, 109, 105, 114>>, <<86, 108, 97, 100, 105, 109, 105, 114>>, <<77, 97, 103, 101>>, <<77, 97, 103, 105, 99>>, TRUE, <<<<77, 97, 103, 101, 82, 111, 108, 101>>>>, <<>>),
      Champion(<<122, 101, 100>>, <<90, 101, 100>>, <<65, 115, 115, 97, 115, 115, 105, 110>>, <<80, 104, 121, 115, 105, 99, 97, 108>>, FALSE,
               <<<<65, 115, 115, 97, 115, 115, 105, 110, 82, 111, 108, 101>>>>, <<>>),
      Champion(<<97, 97, 116, 114, 111, 120>>, <<65, 97, 116, 114, 111, 120>>, <<70, 105, 103, 104, 116, 101, 114>>, <<80, 104, 121, 115, 105, 99, 97, 108>>, FALSE,
               <<<<70, 105, 103, 104, 116, 101, 114, 82, 111, 108, 101>>>>, <<>>),
      Champion(<<97, 115, 104, 101>>, <<65, 115, 104, 101>>, <<77, 97, 114, 107, 115, 109, 97, 110>>, <<80, 104, 121, 115, 105, 99, 97, 108>>, TRUE,
               <<<<77, 97, 114, 107, 115, 109, 97, 110, 82, 111, 108, 101>>>>, <<>>)>>

Item(key, name, gold_cost) == [key |-> key, name |-> name, gold_cost |-> gold_cost]

\* the gold cost of Sterak's Gage is not recorded
ItemCatalogue ==
    <<Item(<<98, 111, 111, 116, 115>>, <<66, 111, 111, 116, 115>>, Some(300)),
      Item(<<108, 111, 110, 103, 95, 115, 119, 111, 114, 100>>, <<76, 111, 110, 103, 32, 83, 119, 111, 114, 100>>, Some(350)),
      Item(<<109, 101, 114, 99, 117, 114, 121, 115, 95, 116, 114, 101, 97, 100, 115>>, <<77, 101, 114, 99, 117, 114, 121, 39, 115, 32, 84, 114, 101, 97, 100, 115>>, Some(1100)),
      Item(<<116, 104, 111, 114, 110, 109, 97, 105, 108>>, <<84, 104, 111, 114, 110, 109, 97, 105, 108>>, Some(2700)),
      Item(<<115, 112, 105, 114, 105, 116, 95, 118, 105, 115, 97, 103, 101>>, <<83, 112, 105, 114, 105, 116, 32, 86, 105, 115, 97, 103, 101>>, Some(2900)),
      Item(<<102, 111, 114, 99, 101, 95, 111, 102, 95, 110, 97, 116, 117, 114, 101>>, <<70, 111, 114, 99, 101, 32, 111, 102, 32, 78, 97, 116, 117, 114, 101>>, Some(2900)),
      Item(<<115, 116, 114, 105, 100, 101, 98, 114, 101, 97, 107, 101, 114>>, <<83, 116, 114, 105, 100, 101, 98, 114, 101, 97, 107, 101, 114>>, Some(3300)),
      Item(<<100, 101, 97, 100, 95, 109, 97, 110, 115, 95, 112, 108, 97, 116, 101>>, <<68, 101, 97, 100, 32, 77, 97, 110, 39, 115, 32, 80, 108, 97, 116, 101>>, Some(2900)),
      Item(<<115, 116, 101, 114, 97, 107, 115, 95, 103, 97, 103, 101>>, <<83, 116, 101, 114, 97, 107, 39, 115, 32, 71, 97, 103, 101>>, Nothing),
      Item(<<98, 108, 97, 99, 107, 95, 99, 108, 101, 97, 118, 101, 114>>, <<66, 108, 97, 99, 107, 32, 67, 108, 101, 97, 118, 101, 114>>, Some(3000)),
      Item(<<116, 114, 105, 110, 105, 116, 121, 95, 102, 111, 114, 99, 101>>, <<84, 114, 105, 110, 105, 116, 121, 32, 70, 111, 114, 99, 101>>, Some(3333))>>

UserChampions == {<<71, 97, 114, 101, 110>>, <<84, 101, 101, 109, 111>>}

UserItems ==
    {<<>>,
     <<<<66, 111, 111, 116, 115>>, <<76, 111, 110, 103, 32, 83, 119, 111, 114, 100>>>>,
     <<<<77, 101, 114, 99, 117, 114, 121, 39, 115, 32, 84, 114, 101, 97, 100, 115>>, <<84, 104, 111, 114, 110, 109, 97, 105, 108>>>>,
     <<<<83, 112, 105, 114, 105, 116, 32, 86, 105, 115, 97, 103, 101>>, <<77, 121, 115, 116, 101, 114, 121, 32, 79, 114, 98>>>>,
     <<<<77, 111, 114, 116, 97, 108, 32, 82, 101, 109, 105, 110, 100, 101, 114>>>>}

UserGolds == {0, 500, 1100, 3000, 6000}

ItemPlayer(pid, champion, team, gold, level, item_names) ==
    [participant_id |-> pid, champion |-> champion, team |-> team, total_gold |-> gold,
     level |-> level, items |-> item_names]

Enemy(pid, champion, gold, level) == ItemPlayer(pid, champion, "Red", gold, level, <<>>)

\* the players an enemy position may hold
EnemySlots ==
    <<{Enemy(6, <<65, 97, 116, 114, 111, 120>>, 3000, 5), Enemy(6, <<86, 108, 97, 100, 105, 109, 105, 114>>, 3600, 7),
       Enemy(6, <<90, 101, 100>>, 4000, 8)},
      {Enemy(7, <<65, 104, 114, 105>>, 3200, 6), Enemy(7, <<90, 101, 100>>, 6000, 12),
       Enemy(7, <<65, 97, 116, 114, 111, 120>>, 5000, 10)},
      {Enemy(8, <<86, 108, 97, 100, 105, 109, 105, 114>>, 3100, 6), Enemy(8, <<65, 104, 114, 105>>, 4600, 9),
       Enemy(8, <<65, 115, 104, 101>>, 7000, 13)},
      {Enemy(9, <<65, 115, 104, 101>>, 3600, 7), Enemy(9, <<90, 101, 100>>, 3000, 7)},
      {Enemy(10, <<65, 104, 114, 105>>, 5000, 11), Enemy(10, <<65, 97, 116, 114, 111, 120>>, 3700, 7)}>>

\* the enemy teams that fill the first n positions
RECURSIVE EnemyTeams(_)
EnemyTeams(n) ==
    IF n = 0 THEN {<<>>}
    ELSE {Append(team, enemy) : team \in EnemyTeams(n - 1), enemy \in EnemySlots[n]}

ItemSnapshots ==
    {[players |-> <<ItemPlayer(1, champion, "Blue", gold, 9, item_names),
                    ItemPlayer(2, <<90, 101, 100>>, "Blue", 4000, 8, <<>>)>> \o team] :
        champion \in UserChampions, gold \in UserGolds, item_names \in UserItems,
        team \in UNION {EnemyTeams(n) : n \in 0..MaxEnemies}}

InitItems ==
    /\ graph = {}
    /\ last_queries = <<>>
    /\ snapshots \in {<<snapshot>> : snapshot \in ItemSnapshots}
    /\ retriever_log = <<>>
    /\ champions \in {ItemChampions(core) : core \in {0, 2, MaxCore}}
    /\ items = ItemCatalogue
    /\ NoSession
    /\ instances = NoInstances
    /\ call = NoCall
    /\ result = <<>>

\* analyze_item_recommendations on a loaded snapshot
AnalyzeItems ==
    /\ call = NoCall
    /\ \E i \in 1..Len(snapshots) :
          /\ call' = [op |-> "item_recommendations", args |-> i]
          /\ result' = item_recommendations(champions, items, snapshots[i])
          /\ retriever_log' = retriever_log \o analyze_item_recommendations(snapshots[i]).lookups
          /\ UNCHANGED <<graph, last_queries, snapshots, champions, items, instances, session>>

NextItems == NextRequest \/ AnalyzeItems

SpecItems == InitItems /\ [][NextItems]_vars

(***************************************************************************)
(* Claims about the item analysis.                                         *)
(***************************************************************************)
\* the analysis of the loaded snapshot has been made and found the user
ItemsAnalysed == call # NoCall /\ call.op = "item_recommendations" /\ "error" \notin DOMAIN result

\* the recommendations as generated for the analysed snapshot, before the
\* duplicates are removed
Generated ==
    LET snapshot == snapshots[call.args]
        user == get_user_player(snapshot)[1]
        build == get_build(champions, user.champion)
    IN  generated_recommendations(
            champions, items,
            IF "error" \in DOMAIN build THEN [core_items |-> <<>>] ELSE build,
            user.items, result.enemy_composition,
            get_champion_details(champions, user.champion))

ItemTiers == <<"essential", "core", "situational", "defensive">>

TierRank(recommendation) == CHOOSE t \in 1..Len(ItemTiers) : ItemTiers[t] = recommendation.priority

\* C18: next_item_suggestions never holds two entries of the same item
\* name, each entry is the first one generated for its name, there are at
\* most 8 entries, and they are ordered by tier (essential, core,
\* situational, defensive) and within a tier by non-decreasing gold cost.
C18_SuggestionsUniqueSortedCapped ==
    ItemsAnalysed =>
        \A generated \in {Generated} :
            LET recs == result.next_item_suggestions
                First(name) == Min({k \in 1..Len(generated) : generated[k].item = name})
            IN  /\ Len(recs) <= 8
                /\ \A i, j \in 1..Len(recs) : i < j =>
                      /\ recs[i].item # recs[j].item
                      /\ TierRank(recs[i]) <= TierRank(recs[j])
                      /\ TierRank(recs[i]) = TierRank(recs[j])
                             => recs[i].gold_cost <= recs[j].gold_cost
                /\ \A i \in 1..Len(recs) :
                      /\ \E k \in 1..Len(generated) : generated[k].item = recs[i].item
                      /\ recs[i] = generated[First(recs[i].item)]

\* nine different items were generated, Thornmail as a situational and
\* then as a defensive one, the costlier core item first; eight are
\* suggested, Thornmail as the situational one
C18_Witness ==
    /\ ItemsAnalysed
    /\ Len(result.next_item_suggestions) = 8
    /\ \E generated \in {Generated} :
          /\ Cardinality({generated[k].item : k \in 1..Len(generated)}) > 8
          /\ \E k, l \in 1..Len(generated) :
                /\ k < l
                /\ generated[k].item = generated[l].item
                /\ generated[k].priority = "situational"
                /\ generated[l].priority = "defensive"
                /\ \E i \in 1..Len(result.next_item_suggestions) :
                      result.next_item_suggestions[i] = generated[k]
          /\ \E k, l \in 1..Len(generated) :
                /\ k < l
                /\ generated[k].priority = "core"
                /\ generated[l].priority = "core"
                /\ generated[k].gold_cost > generated[l].gold_cost

\* the known cost of an item name: the gold cost of the item the retriever
\* finds for it, 0 when it finds none or no cost is recorded
KnownCost(item_name) ==
    LET item == find_item(items, item_name)
    IN  IF item = Nothing \/ item[1].gold_cost = Nothing THEN 0 ELSE item[1].gold_cost[1]

RECURSIVE SumCosts(_)
SumCosts(item_names) ==
    IF item_names = <<>> THEN 0 ELSE KnownCost(Head(item_names)) + SumCosts(Tail(item_names))

\* item and cost of every entry of a list of purchases or recommendations
ItemsAndCosts(entries) ==
    [i \in 1..Len(entries) |-> <<entries[i].item, entries[i].gold_cost>>]

\* C19: estimated_available_gold is max(0, total_gold - sum of the known
\* costs of the current items) and never negative; immediate_purchases is
\* the recommendations that cost at most that amount, in their order,
\* followed, only when there is none or the amount is below 1000, by the
\* components that cost at most that amount and are not owned, cut to 5
\* entries; every immediate purchase costs at most the available gold.
C19_AvailableGoldAndPurchases ==
    ItemsAnalysed =>
        LET gold == result.estimated_available_gold
            left == result.total_gold - SumCosts(result.current_items)
            affordable == SelectSeq(result.next_item_suggestions,
                                    LAMBDA r : r.gold_cost <= gold)
            owned == {Lower(result.current_items[i]) : i \in 1..Len(result.current_items)}
            parts == IF affordable = <<>> \/ gold < 1000
                     THEN SelectSeq(components,
                                    LAMBDA c : c.gold_cost <= gold /\ Lower(c.item) \notin owned)
                     ELSE <<>>
            expected == ItemsAndCosts(affordable) \o ItemsAndCosts(parts)
            purchases == result.immediate_purchases
        IN  /\ gold = (IF left > 0 THEN left ELSE 0)
            /\ gold >= 0
            /\ ItemsAndCosts(purchases) = SubSeq(expected, 1, Min({5, Len(expected)}))
            /\ \A i \in 1..Len(purchases) : purchases[i].gold_cost <= gold

\* with 500 gold and no item the one affordable recommendation is followed
\* by components, and the list is cut to 5
C19_Witness ==
    /\ ItemsAnalysed
    /\ result.estimated_available_gold = 500
    /\ Len(result.immediate_purchases) = 5
    /\ result.immediate_purchases[1].type = "complete"
    /\ result.immediate_purchases[2].type = "component"
    /\ Len(SelectSeq(result.next_item_suggestions, LAMBDA r : r.gold_cost <= 500))
           + Len(SelectSeq(components, LAMBDA c : c.gold_cost <= 500)) > 5

\* the items owned cost more than the total gold: no gold is available
C19_WitnessNoGold ==
    /\ ItemsAnalysed
    /\ result.total_gold < SumCosts(result.current_items)
    /\ result.estimated_available_gold = 0
    /\ result.immediate_purchases # <<>>

\* C20 as stated: the primary threat used for the situational counter item
\* is the threat with the most gold, the first element of the threat list
\* sorted by gold.
C20_PrimaryThreatIsRichest ==
    (ItemsAnalysed /\ result.enemy_composition.threats # <<>>) =>
        LET threats == result.enemy_composition.threats
            primary == result.enemy_composition.primary_threat
        IN  /\ primary = Some(threats[1])
            /\ \A i \in 1..Len(threats) : threats[i].gold <= primary[1].gold

\* two enemies are threats and the one that comes first in the snapshot
\* has less gold: it is the primary threat, the other one heads the list
C20_WitnessFirstNotRichest ==
    /\ ItemsAnalysed
    /\ Len(result.enemy_composition.threats) >= 2
    /\ result.enemy_composition.primary_threat # Nothing
    /\ result.enemy_composition.primary_threat[1].gold
           < result.enemy_composition.threats[1].gold
    /\ result.enemy_composition.primary_threat[1].champion
           = get_enemies(snapshots[call.args])[1].champion

\* the anti-heal recommendation generated for the analysed snapshot
GeneratedAntiheal ==
    LET user == get_user_player(snapshots[call.args])[1]
    IN  antiheal_recommendation(
            result.enemy_composition,
            [i \in 1..Len(user.items) |-> Lower(user.items[i])],
            get_champion_details(champions, user.champion))

\* some enemy of the analysed snapshot is on the roster of healing champions
EnemyOnRoster ==
    \E h \in healing_champs :
        LET enemies == get_enemies(snapshots[call.args])
        IN  \E i \in 1..Len(enemies) : Lower(enemies[i].champion) = h

\* the user of the analysed snapshot owns an anti-heal item
OwnsAntiheal ==
    LET user == get_user_player(snapshots[call.args])[1]
    IN  OwnsAny(AntihealWords, [i \in 1..Len(user.items) |-> Lower(user.items[i])])

\* C21 as stated: an anti-heal item is generated exactly when some enemy
\* of the snapshot is on the roster of healing champions, whatever its
\* level and gold, and the user owns no anti-heal item.
C21_AntihealForAnyRosterEnemy ==
    ItemsAnalysed => ((GeneratedAntiheal # <<>>) <=> (EnemyOnRoster /\ ~OwnsAntiheal))

\* an enemy on the roster is below the threat thresholds, the user owns
\* no anti-heal item, and no anti-heal item is generated
C21_WitnessHealerNotThreat ==
    /\ ItemsAnalysed
    /\ EnemyOnRoster
    /\ ~OwnsAntiheal
    /\ GeneratedAntiheal = <<>>
    /\ \E i \in 1..Len(get_enemies(snapshots[call.args])) :
          LET enemy == get_enemies(snapshots[call.args])[i]
          IN  /\ Lower(enemy.champion) \in healing_champs
              /\ enemy.level < 8
              /\ enemy.total_gold <= 3500

\* the part of C21 the code keeps: no anti-heal item is generated when no
\* enemy is on the roster or an anti-heal item is owned
C21_NoAntihealWithoutNeed ==
    (ItemsAnalysed /\ (~EnemyOnRoster \/ OwnsAntiheal)) => GeneratedAntiheal = <<>>

\* none of the current items of the analysed user carries a boots word
NoBoots ==
    LET user == get_user_player(snapshots[call.args])[1]
    IN  ~OwnsAny(BootsWords, [i \in 1..Len(user.items) |-> Lower(user.items[i])])

\* the boots the claim names for an enemy composition
BootsFor(enemy_composition) ==
    IF enemy_composition.ap_heavy THEN <<77, 101, 114, 99, 117, 114, 121, 39, 115, 32, 84, 114, 101, 97, 100, 115>>
    ELSE IF enemy_composition.ad_heavy \/ enemy_composition.has_assassins
    THEN <<80, 108, 97, 116, 101, 100, 32, 83, 116, 101, 101, 108, 99, 97, 112, 115>>
    ELSE <<73, 111, 110, 105, 97, 110, 32, 66, 111, 111, 116, 115, 32, 111, 102, 32, 76, 117, 99, 105, 100, 105, 116, 121>>

\* C22: when no current item of the user carries a boots word (boots,
\* greaves, steelcaps, treads, shoes), next_item_suggestions holds exactly
\* one essential entry, it is the first entry, and its item is Mercury's
\* Treads against an AP-heavy enemy team, otherwise Plated Steelcaps
\* against an AD-heavy team or one with an assassin, otherwise Ionian
\* Boots of Lucidity; when a boots word is present no essential entry is
\* generated or suggested.
C22_BootsFirstWhenNoneOwned ==
    ItemsAnalysed =>
        \A generated \in {Generated} :
            LET recs == result.next_item_suggestions
                essential == {i \in 1..Len(recs) : recs[i].priority = "essential"}
            IN  IF NoBoots
                THEN /\ essential = {1}
                     /\ recs[1].item = BootsFor(result.enemy_composition)
                     /\ recs[1].gold_cost = 1100
                ELSE /\ essential = {}
                     /\ \A k \in 1..Len(generated) : generated[k].priority # "essential"

\* the user owns no boots and the enemy team, neither AP-heavy nor
\* AD-heavy, has an assassin: Plated Steelcaps come first, core items
\* follow
C22_Witness ==
    /\ ItemsAnalysed
    /\ NoBoots
    /\ ~result.enemy_composition.ap_heavy
    /\ ~result.enemy_composition.ad_heavy
    /\ result.enemy_composition.has_assassins
    /\ Len(result.next_item_suggestions) >= 3
    /\ result.next_item_suggestions[1].item = <<80, 108, 97, 116, 101, 100, 32, 83, 116, 101, 101, 108, 99, 97, 112, 115>>
    /\ result.next_item_suggestions[2].priority = "core"
    /\ result.next_item_suggestions[2].gold_cost < 1100

\* against three magic-damage enemies the boots are Mercury's Treads
C22_WitnessApHeavy ==
    /\ ItemsAnalysed
    /\ NoBoots
    /\ result.enemy_composition.ap_heavy
    /\ result.next_item_suggestions[1].item = <<77, 101, 114, 99, 117, 114, 121, 39, 115, 32, 84, 114, 101, 97, 100, 115>>

\* against no known enemy the boots are Ionian Boots of Lucidity
C22_WitnessNeutral ==
    /\ ItemsAnalysed
    /\ NoBoots
    /\ ~result.enemy_composition.has_assassins
    /\ result.next_item_suggestions[1].item = <<73, 111, 110, 105, 97, 110, 32, 66, 111, 111, 116, 115, 32, 111, 102, 32, 76, 117, 99, 105, 100, 105, 116, 121>>

\* the user owns Mercury's Treads: nothing essential is suggested
C22_WitnessBootsOwned ==
    /\ ItemsAnalysed
    /\ ~NoBoots
    /\ result.next_item_suggestions # <<>>

(***************************************************************************)
(* The executive summary of full_analysis.  A key point is the record of   *)
(* its sentence and of the values the sentence interpolates.               *)
(***************************************************************************)
\* name.lower().replace(" ", "")
Squash(name) == SelectSeq(Lower(name), LAMBDA c : c # 32)

\* the display name of the champion found, else the name with its
\* underscores replaced by blanks
format_champion_names(store, name_list) ==
    LET Name(name, found) ==
            IF ~Raised(found) /\ found.champ # Nothing THEN found.champ[1].name
            ELSE Replace(name, <<95>>, <<32>>)
    IN  [i \in 1..Len(name_list) |-> Name(name_list[i], find_champion(store, Some(name_list[i])))]

\* get_counters(champion_name, "countered_by")
get_counters(store, champion_name) ==
    LET Counters(found) ==
            IF Raised(found) THEN found
            ELSE IF found.champ = Nothing THEN [error |-> "Champion not found"]
            ELSE [champion          |-> found.champ[1].name,
                  hard_countered_by |->
                      format_champion_names(store, Get(found.champ[1], "hard_countered_by", <<>>)),
                  countered_by      |->
                      format_champion_names(store, Get(found.champ[1], "countered_by", <<>>))]
    IN  Counters(find_champion(store, Some(champion_name)))

\* the entry of one enemy: a hard counter when its squashed name occurs in
\* a name of hard_countered_by, else a soft counter when it occurs in a
\* name of countered_by, else none
CounterEntry(user_counters, enemy) ==
    LET Occurs(list) ==
            \E i \in 1..Len(list) : IsSubstring(Squash(enemy.champion), Squash(list[i]))
    IN  IF Occurs(Get(user_counters, "hard_countered_by", <<>>))
        THEN <<[champion |-> enemy.champion, counter_type |-> "HARD COUNTER"]>>
        ELSE IF Occurs(Get(user_counters, "countered_by", <<>>))
        THEN <<[champion |-> enemy.champion, counter_type |-> "Soft Counter"]>>
        ELSE <<>>

\* the loop over the enemies of analyze_counter_strategies
RECURSIVE enemies_that_counter_user(_, _)
enemies_that_counter_user(user_counters, enemies) ==
    IF enemies = <<>> THEN <<>>
    ELSE CounterEntry(user_counters, Head(enemies))
             \o enemies_that_counter_user(user_counters, Tail(enemies))

\* _analyze_player_performance: the rating of cs / minute, 0 per minute
\* when minute is not positive
cs_rating(player, minute) ==
    LET cs == Get(player, "cs", 0)
    IN  IF minute <= 0 THEN "Below Average"
        ELSE IF cs >= 8 * minute THEN "Excellent"
        ELSE IF cs >= 6 * minute THEN "Good"
        ELSE IF cs >= 4 * minute THEN "Average"
        ELSE "Below Average"

Abs(n) == IF n < 0 THEN -n ELSE n

\* the headline of the game state
StatePoint(state, gold_diff) ==
    IF state \in {"Winning", "Ahead"} THEN <<[point |-> "ahead", gold |-> Abs(gold_diff)]>>
    ELSE IF state \in {"Losing", "Behind"}
    THEN <<[point |-> "behind", gold |-> Abs(gold_diff)]>>
    ELSE <<[point |-> "even"]>>

CsPoint(rating) ==
    IF rating = "Below Average" THEN <<[point |-> "improve_cs"]>> ELSE <<>>

\* the warning names the first hard counter of the list
CounterPoint(counters_user) ==
    LET hard_counters == SelectSeq(counters_user, LAMBDA c : c.counter_type = "HARD COUNTER")
    IN  IF hard_counters = <<>> THEN <<>>
        ELSE <<[point |-> "hard_counter", champion |-> hard_counters[1].champion]>>

\* "Losing" in lane_state is tested before "Winning" in lane_state
LanePoint(lane_matchup) ==
    IF lane_matchup = <<>> THEN <<>>
    ELSE IF lane_matchup[1].lane_state \in {"Losing", "Losing Hard"}
    THEN <<[point |-> "losing_lane", opponent |-> lane_matchup[1].opponent]>>
    ELSE IF lane_matchup[1].lane_state \in {"Winning", "Winning Hard"}
    THEN <<[point |-> "winning_lane"]>>
    ELSE <<>>

PriorityPoint(item_report) ==
    IF Get(item_report, "next_item_suggestions", <<>>) = <<>> THEN <<>>
    ELSE <<[point |-> "priority_purchase", item |-> item_report.next_item_suggestions[1].item]>>

ImmediatePoint(item_report) ==
    IF /\ Get(item_report, "immediate_purchases", <<>>) # <<>>
       /\ Get(item_report, "estimated_available_gold", 0) > 0
    THEN <<[point |-> "buy_now", gold |-> item_report.estimated_available_gold,
            item |-> item_report.immediate_purchases[1].item]>>
    ELSE <<>>

MaxKeyPoints == 6

\* a variant that reports the lane before the counter warning
key_points_lane_first(state, gold_diff, rating, counters_user, lane_matchup, item_report) ==
    StatePoint(state, gold_diff) \o CsPoint(rating) \o LanePoint(lane_matchup)
        \o CounterPoint(counters_user) \o PriorityPoint(item_report)
        \o ImmediatePoint(item_report)

\* the key points in the order _generate_summary appends them
key_points(state, gold_diff, rating, counters_user, lane_matchup, item_report) ==
    StatePoint(state, gold_diff) \o CsPoint(rating) \o CounterPoint(counters_user)
        \o LanePoint(lane_matchup) \o PriorityPoint(item_report)
        \o ImmediatePoint(item_report)

\* the summary: the first six key points, the first one as primary focus
summary_of(user, state, gold_diff, points) ==
    [champion      |-> user.champion,
     position      |-> ROLE_POSITIONS[user.participant_id],
     game_state    |-> state,
     gold_diff     |-> gold_diff,
     key_points    |-> SubSeq(points, 1, Min({MaxKeyPoints, Len(points)})),
     primary_focus |-> IF points = <<>> THEN [point |-> "play_your_game"] ELSE points[1]]

\* full_analysis with the fields the summary reads: the game state and
\* the rating of the user's farm, the item report, the enemies that
\* counter the user and the lane matchup, and the summary made of them
full_analysis_summary(store, catalogue, snapshot) ==
    LET Report(user, game_state, item_report, counters_user, lane_opponent) ==
            LET rating == cs_rating(user, Get(snapshot, "minute", 10))
                lane_matchup == IF lane_opponent = <<>> THEN <<>>
                                ELSE <<analyze_lane_matchup(user, lane_opponent[1])>>
            IN  [summary |->
                     summary_of(user, game_state.game_state, game_state.team_gold_diff,
                                key_points(game_state.game_state, game_state.team_gold_diff,
                                           rating, counters_user, lane_matchup, item_report)),
                 game_state |->
                     [game_state     |-> game_state.game_state,
                      team_gold_diff |-> game_state.team_gold_diff,
                      user           |-> [cs_rating |-> rating]],
                 item_recommendations |-> item_report,
                 counter_strategies |->
                     [lane_matchup              |-> lane_matchup,
                      enemies_that_counter_user |-> counters_user]]
        Analysis(user) ==
            IF user = <<>> THEN AttributeError
            ELSE Report(user[1], analyze_game_state(snapshot).ret,
                        item_recommendations(store, catalogue, snapshot),
                        enemies_that_counter_user(get_counters(store, user[1].champion),
                                                  get_enemies(snapshot)),
                        get_lane_opponent(snapshot))
    IN  Analysis(get_user_player(snapshot))

(***************************************************************************)
(* The full analyses explored: the user (Garen or Teemo) on the blue side  *)
(* with farm next to the rating threshold, a team gold differential next   *)
(* to the thresholds of the headline, and an enemy team that fills the     *)
(* first positions.  The retriever knows who counters Garen, or nobody.    *)
(***************************************************************************)
MaxOpponents == 2

\* a champion of the store with the champions that counter it
WithCounters(champ, hard, soft) ==
    [f \in DOMAIN champ \cup {"hard_countered_by", "countered_by"} |->
        IF f = "hard_countered_by" THEN hard
        ELSE IF f = "countered_by" THEN soft
        ELSE champ[f]]

SummaryChampions(hard) ==
    LET store == ItemChampions(2)
    IN  [i \in 1..Len(store) |->
            IF i = 1 THEN WithCounters(store[i], hard, <<<<65, 97, 116, 114, 111, 120>>>>) ELSE store[i]]

SummaryStores == {SummaryChampions(<<>>), SummaryChampions(<<<<86, 108, 97, 100, 105, 109, 105, 114>>, <<90, 101, 100>>>>)}

SummaryGolds == {0, 2500, 6000}

SummaryItems == {<<>>, <<<<66, 111, 111, 116, 115>>, <<76, 111, 110, 103, 32, 83, 119, 111, 114, 100>>>>}

SummaryCs == {39, 40}

SummaryMinutes == {0, 10}

SummaryDiffs == {-1501, -1500, 0, 1500, 1501}

SummaryUser(champion, gold, item_names, cs) ==
    [participant_id |-> 1, champion |-> champion, team |-> "Blue", total_gold |-> gold,
     level |-> 9, items |-> item_names, cs |-> cs]

SummarySnapshots ==
    {[players        |-> <<SummaryUser(champion, gold, item_names, cs)>> \o team,
      minute         |-> minute,
      gold_diff      |-> d,
      blue_team_gold |-> 30000 + d,
      red_team_gold  |-> 30000] :
        champion \in UserChampions, gold \in SummaryGolds, item_names \in SummaryItems,
        cs \in SummaryCs, minute \in SummaryMinutes, d \in SummaryDiffs,
        team \in UNION {EnemyTeams(n) : n \in 0..MaxOpponents}}

InitSummary ==
    /\ graph = {}
    /\ last_queries = <<>>
    /\ snapshots \in {<<snapshot>> : snapshot \in SummarySnapshots}
    /\ retriever_log = <<>>
    /\ champions \in SummaryStores
    /\ items = ItemCatalogue
    /\ NoSession
    /\ instances = NoInstances
    /\ call = NoCall
    /\ result = <<>>

\* full_analysis on a loaded snapshot
SummarizeGame ==
    /\ call = NoCall
    /\ \E i \in 1..Len(snapshots) :
          /\ call' = [op |-> "full_analysis", args |-> i]
          /\ result' = full_analysis_summary(champions, items, snapshots[i])
          /\ retriever_log' = retriever_log \o full_analysis(snapshots[i]).lookups
          /\ UNCHANGED <<graph, last_queries, snapshots, champions, items, instances, session>>

NextSummary == NextRequest \/ SummarizeGame

SpecSummary == InitSummary /\ [][NextSummary]_vars

(***************************************************************************)
(* Claims about the summary.                                               *)
(***************************************************************************)
Summarised == call # NoCall /\ call.op = "full_analysis" /\ ~Raised(result)

\* the place of a key point in the fixed order
PointRank(key_point) ==
    CASE key_point.point \in {"ahead", "behind", "even"}     -> 1
      [] key_point.point = "improve_cs"                      -> 2
      [] key_point.point = "hard_counter"                    -> 3
      [] key_point.point \in {"losing_lane", "winning_lane"} -> 4
      [] key_point.point = "priority_purchase"               -> 5
      [] key_point.point = "buy_now"                         -> 6

\* C23: the summary of full_analysis has between 1 and 6 key points in the
\* fixed order game-state headline, CS warning, hard-counter warning,
\* lane-state headline, priority purchase, immediate purchase; the CS
\* warning is there exactly when the CS rating is Below Average, the
\* hard-counter warning exactly when some enemy is reported as HARD
\* COUNTER, the lane headline exactly when the lane is being won or lost;
\* the first key point is the game-state headline and primary_focus is
\* that key point.
C23_KeyPointsOrdered ==
    Summarised =>
        LET points == result.summary.key_points
            Has(rank) == \E i \in 1..Len(points) : PointRank(points[i]) = rank
            counters_user == result.counter_strategies.enemies_that_counter_user
            lane_matchup == result.counter_strategies.lane_matchup
        IN  /\ Len(points) >= 1
            /\ Len(points) <= 6
            /\ \A i, j \in 1..Len(points) : i < j => PointRank(points[i]) < PointRank(points[j])
            /\ PointRank(points[1]) = 1
            /\ points[1].point =
                   (IF result.summary.game_state \in {"Winning", "Ahead"} THEN "ahead"
                    ELSE IF result.summary.game_state \in {"Losing", "Behind"} THEN "behind"
                    ELSE "even")
            /\ result.summary.primary_focus = points[1]
            /\ Has(2) <=> result.game_state.user.cs_rating = "Below Average"
            /\ Has(3) <=> \E k \in 1..Len(counters_user) :
                              counters_user[k].counter_type = "HARD COUNTER"
            /\ Has(4) <=> /\ lane_matchup # <<>>
                          /\ lane_matchup[1].lane_state
                                 \in {"Winning", "Winning Hard", "Losing", "Losing Hard"}
            /\ Has(5) <=> result.item_recommendations.next_item_suggestions # <<>>

\* all six key points: behind, poor farm, a hard counter that is not the
\* first enemy that counters the user, a lost lane, and gold to spend
C23_Witness ==
    /\ Summarised
    /\ Len(result.summary.key_points) = 6
    /\ result.summary.key_points[1].point = "behind"
    /\ result.summary.key_points[4].point = "losing_lane"
    /\ Len(result.counter_strategies.enemies_that_counter_user) >= 2
    /\ result.counter_strategies.enemies_that_counter_user[1].counter_type = "Soft Counter"
    /\ result.summary.key_points[3].champion
           = result.counter_strategies.enemies_that_counter_user[2].champion

\* the headline alone: nothing to suggest or to buy, no enemy, average farm
C23_WitnessHeadlineOnly ==
    /\ Summarised
    /\ Len(result.summary.key_points) = 1
    /\ result.item_recommendations.next_item_suggestions = <<>>
    /\ result.item_recommendations.immediate_purchases = <<>>

(***************************************************************************)
(* Claims about the lane opponent and the lane state.                      *)
(***************************************************************************)
\* the enemies of the analysed snapshot on the user's position
SamePositionEnemies ==
    LET user == UserOf(Analysed)
    IN  {i \in 1..Len(Analysed.players) :
            /\ Analysed.players[i].team # user.team
            /\ ROLE_POSITIONS[Analysed.players[i].participant_id]
                   = ROLE_POSITIONS[user.participant_id]}

\* the champion reported as lane opponent by the last analysis, if any
ReportedOpponent ==
    IF call.op = "analyze_item_recommendations"
    THEN [i \in 1..Len(result.lane_opponent) |-> result.lane_opponent[i].champion]
    ELSE [i \in 1..Len(result.lane_matchup) |-> result.lane_matchup[i].opponent]

LaneAnalysed ==
    /\ call.op \in {"analyze_item_recommendations", "analyze_counter_strategies"}
    /\ HasUser(Analysed)

\* C24 as stated: a reported lane opponent is an enemy whose position
\* label equals the user's, and when no enemy has that position no lane
\* opponent is reported (lane_opponent and lane_matchup are null) while
\* the analysis completes.
C24_LaneOpponentSamePosition ==
    LaneAnalysed =>
        /\ ~Raised(result)
        /\ IF SamePositionEnemies = {} THEN ReportedOpponent = <<>>
           ELSE \E i \in SamePositionEnemies :
                    ReportedOpponent = <<Analysed.players[i].champion>>

\* the only enemy is the jungler, the user plays top: the jungler is
\* reported as lane opponent
C24_WitnessOtherPosition ==
    /\ LaneAnalysed
    /\ SamePositionEnemies = {}
    /\ ReportedOpponent # <<>>
    /\ \E i \in 1..Len(Analysed.players) :
          /\ Analysed.players[i].champion = ReportedOpponent[1]
          /\ ROLE_POSITIONS[Analysed.players[i].participant_id] = "Jungle"
          /\ ROLE_POSITIONS[UserOf(Analysed).participant_id] = "Top"

\* what the code keeps: an enemy on the user's position is preferred to
\* the enemies listed before it, and without any enemy nothing is reported
C24_SamePositionPreferred ==
    LaneAnalysed =>
        /\ SamePositionEnemies # {} =>
               ReportedOpponent = <<Analysed.players[Min(SamePositionEnemies)].champion>>
        /\ get_enemies(Analysed) = <<>> => ReportedOpponent = <<>>

\* the lane state of a differential, band by band
LaneBand(d) ==
    CASE d > 1000                -> "Winning Hard"
      [] 300 < d /\ d <= 1000    -> "Winning"
      [] -300 <= d /\ d <= 300   -> "Even"
      [] -1000 <= d /\ d < -300  -> "Losing"
      [] d < -1000               -> "Losing Hard"

\* the state of the other side
Mirrored(state) ==
    CASE state = "Winning Hard"    -> "Losing Hard"
      [] state = "Winning"         -> "Losing"
      [] state = "Losing"          -> "Winning"
      [] state = "Losing Hard"     -> "Winning Hard"
      [] state = "Ahead"           -> "Behind"
      [] state = "Behind"          -> "Ahead"
      [] state = "Slightly Ahead"  -> "Slightly Behind"
      [] state = "Slightly Behind" -> "Slightly Ahead"
      [] state = "Even"            -> "Even"

\* C25: the lane state classifies the lane gold differential d (user gold
\* minus lane opponent gold) with strict thresholds at 300 and 1000 on each
\* side: d > 1000 Winning Hard, 300 < d <= 1000 Winning, -300 <= d <= 300
\* Even (d = 300 and d = -300 included), -1000 <= d < -300 Losing,
\* d < -1000 Losing Hard; the state of -d is the mirrored state of d; the
\* global game state has the same structure: mirrored, with the innermost
\* thresholds themselves Even.
C25_LaneStateBands ==
    /\ (call.op = "analyze_counter_strategies" /\ HasUser(Analysed)) =>
           \A k \in 1..Len(result.lane_matchup) :
               LET matchup == result.lane_matchup[k]
                   d == matchup.gold_difference
               IN  /\ d = UserOf(Analysed).total_gold - matchup.opponent_gold
                   /\ matchup.lane_state = LaneBand(d)
                   /\ LaneState(-d) = Mirrored(matchup.lane_state)
                   /\ d \in {300, -300} => matchup.lane_state = "Even"
    /\ (call.op = "analyze_game_state" /\ HasUser(Analysed)) =>
           /\ GameState(-result.team_gold_diff) = Mirrored(result.game_state)
           /\ result.team_gold_diff \in {500, -500} => result.game_state = "Even"

\* the user is exactly 300 gold ahead of the lane opponent: the lane is Even
C25_Witness ==
    /\ call.op = "analyze_counter_strategies"
    /\ HasUser(Analysed)
    /\ result.lane_matchup # <<>>
    /\ result.lane_matchup[1].gold_difference = 300
    /\ result.lane_matchup[1].lane_state = "Even"

\* exactly 1000 gold behind the lane opponent is Losing
C25_WitnessLosing ==
    /\ call.op = "analyze_counter_strategies"
    /\ HasUser(Analysed)
    /\ result.lane_matchup # <<>>
    /\ result.lane_matchup[1].gold_difference = -1000
    /\ result.lane_matchup[1].lane_state = "Losing"

(***************************************************************************)
(* The chat loop of main().  A message is the record of its role and its   *)
(* content; the loop's position is the call in progress.  The intent and   *)
(* the retrieved data are irrelevant to the history and left out; a        *)
(* dispatch that raises ends the program.                                  *)
(***************************************************************************)
MaxExchanges == 7

\* generate_response forwards conversation_history[-12:]
GeneratorWindow == 12

\* classify_intent reads conversation_history[-6:]
ClassifierWindow == 6

Questions == {"Who counters Aatrox?", "What should I build?"}

QuitWords == {"quit", "exit", "q"}

\* what input().strip() may be
Inputs == Questions \cup {"", "quit"}

\* the model's answer, or the text generate_response returns when the
\* request fails
Responses == {"answer", "Error generating response"}

Message(role, content) == [role |-> role, content |-> content]

\* a variant that takes the first messages of the history
recent_history_first(history, window) ==
    SubSeq(history, 1, IF Len(history) < window THEN Len(history) ELSE window)

\* history[-window:]
recent_history(history, window) ==
    SubSeq(history, IF Len(history) > window THEN Len(history) - window + 1 ELSE 1,
           Len(history))

InitChat ==
    /\ graph = {}
    /\ last_queries = <<>>
    /\ snapshots = <<>>
    /\ retriever_log = <<>>
    /\ champions = <<>>
    /\ items = <<>>
    /\ NoSession
    /\ instances = NoInstances
    /\ call = NoCall
    /\ result = <<>>

\* input(): an empty line is skipped, a quit word ends the loop, anything
\* else is classified with the recent history as context
ReadInput ==
    /\ call = NoCall
    /\ \E user_input \in Inputs :
          IF user_input = "" THEN UNCHANGED call
          ELSE IF user_input \in QuitWords THEN call' = [op |-> "quit"]
          ELSE call' = [op |-> "classify_intent", user_input |-> user_input,
                        recent_history |->
                            recent_history(conversation_history, ClassifierWindow)]
    /\ UNCHANGED <<graph, last_queries, snapshots, retriever_log, champions, items,
                   instances, result, session>>

\* dispatch_query returns, or raises and ends the program
DispatchQuery ==
    /\ call.op = "classify_intent"
    /\ \/ call' = [op |-> "dispatch_query", user_input |-> call.user_input]
       \/ call' = [op |-> "raised", user_input |-> call.user_input]
    /\ UNCHANGED <<graph, last_queries, snapshots, retriever_log, champions, items,
                   instances, result, session>>

\* generate_response: the system prompt, the recent history, the prompt
GenerateResponse ==
    /\ call.op = "dispatch_query"
    /\ \E response \in Responses :
          call' = [op |-> "generate_response", user_input |-> call.user_input,
                   messages |-> recent_history(conversation_history, GeneratorWindow),
                   response |-> response]
    /\ UNCHANGED <<graph, last_queries, snapshots, retriever_log, champions, items,
                   instances, result, session>>

\* the two appends that end an exchange
UpdateHistory ==
    /\ call.op = "generate_response"
    /\ Len(conversation_history) < 2 * MaxExchanges
    /\ conversation_history' =
           Append(Append(conversation_history, Message("user", call.user_input)),
                  Message("assistant", call.response))
    /\ call' = NoCall
    /\ UNCHANGED <<graph, last_queries, snapshots, retriever_log, champions, items,
                   instances, result, heap, handed_out>>

NextChat == ReadInput \/ DispatchQuery \/ GenerateResponse \/ UpdateHistory

SpecChat == InitChat /\ [][NextChat]_vars

(***************************************************************************)
(* Claims about the conversation history.                                  *)
(***************************************************************************)
\* the last min(n, length) messages of a history, in order
LastMessages(history, n) ==
    LET kept == IF Len(history) < n THEN Len(history) ELSE n
    IN  [i \in 1..kept |-> history[Len(history) - kept + i]]

\* what is forwarded is the window of the history as it stands, and the
\* history is made of whole exchanges
ForwardedWindows ==
    /\ call.op = "classify_intent" =>
           call.recent_history = LastMessages(conversation_history, 6)
    /\ call.op = "generate_response" =>
           call.messages = LastMessages(conversation_history, 12)
    /\ \A i \in 1..Len(conversation_history) :
           conversation_history[i].role = (IF i % 2 = 1 THEN "user" ELSE "assistant")
    /\ Len(conversation_history) % 2 = 0

\* the history changes only by the two messages of the exchange whose
\* response was generated
GrowsByExchange ==
    conversation_history' # conversation_history =>
        /\ call.op = "generate_response"
        /\ conversation_history' =
               conversation_history \o <<Message("user", call.user_input),
                                         Message("assistant", call.response)>>

\* C26: across any sequence of exchanges the conversation history only
\* grows, by one user message followed by one assistant message per
\* completed exchange and only after the response of that exchange was
\* generated; the messages forwarded to the response generator are the
\* last min(12, length) messages of the history in order, those read by
\* the intent classifier the last min(6, length), so the question being
\* processed is not among them.
C26_HistoryAppendOnlyWindowed ==
    /\ []ForwardedWindows
    /\ [][GrowsByExchange]_vars

\* seven exchanges were completed: the generator is sent the last twelve
\* of fourteen messages, which differ from the first twelve
C26_Witness ==
    /\ call.op = "generate_response"
    /\ Len(conversation_history) = 14
    /\ Len(call.messages) = 12
    /\ call.messages[1] = conversation_history[3]
    /\ call.messages # SubSeq(conversation_history, 1, 12)

(***************************************************************************)
(* SemanticQueryEngine.recommend_pick.  The graph of this part keeps the   *)
(* heroName triples themselves, so that a lane can hold more champions     *)
(* than the answer may list.                                               *)
(***************************************************************************)
MaxLaners == 11     \* champions of the top lane in the loaded graph
MaxPicks == 10      \* candidates[:10]

\* the champions named name
Named(g, name) == {t[1] : t \in {t \in g : t[2] = "heroName" /\ t[3] = name}}

\* SELECT ?name WHERE { ?champion heroName ?name . ?champion typicalLane lane }
lane_names(g, lane) ==
    {t[3] : t \in {t \in g : t[2] = "heroName" /\ <<t[1], "typicalLane", lane>> \in g}}

\* ASK { ?c heroName champ . ?enemy heroName enemy .
\*       { ?c counters ?enemy } UNION { ?c hardCounters ?enemy } }
AskCounters(g, champ, enemy) ==
    \E c \in Named(g, champ), e \in Named(g, enemy) :
        <<c, "counters", e>> \in g \/ <<c, "hardCounters", e>> \in g

\* ASK with the four synergy alternatives
AskSynergy(g, champ, ally) ==
    \E c \in Named(g, champ), a \in Named(g, ally) :
        \/ <<c, "strongSynergyWith", a>> \in g
        \/ <<a, "strongSynergyWith", c>> \in g
        \/ <<c, "synergyWith", a>> \in g
        \/ <<a, "synergyWith", c>> \in g

\* a variant that asks for the edges that start at the candidate only
AskSynergyFromCandidate(g, champ, ally) ==
    \E c \in Named(g, champ), a \in Named(g, ally) :
        \/ <<c, "strongSynergyWith", a>> \in g
        \/ <<c, "synergyWith", a>> \in g

\* ASK { ?c heroName champ . ?c hasPlaystyle moba:{style}Playstyle }
AskPlaystyle(g, champ, style) ==
    \E c \in Named(g, champ) : <<c, "hasPlaystyle", style \o "Playstyle">> \in g

\* the ASK queries one candidate causes all parse
AsksParse(champ, enemy, allies, styles) ==
    /\ ~HasQuote(champ)
    /\ PyTruthy(enemy) => ~HasQuote(enemy[1])
    /\ PyTruthy(allies) => \A i \in 1..Len(allies[1]) : ~HasQuote(allies[1][i])
    /\ PyTruthy(styles) => \A i \in 1..Len(styles[1]) : styles[1][i] \notin BadTags

\* the body of the loop over the lane's champions: score and reasons
pick_candidate_one_direction(g, champ, enemy, allies, styles) ==
    LET Counters(e) == AskCounters(g, champ, e)
        Synergizes(ally) == AskSynergyFromCandidate(g, champ, ally)
        Has(style) == AskPlaystyle(g, champ, style)
        countered == IF PyTruthy(enemy) THEN SelectSeq(<<enemy[1]>>, Counters) ELSE <<>>
        synergies == IF PyTruthy(allies) THEN SelectSeq(allies[1], Synergizes) ELSE <<>>
        matched == IF PyTruthy(styles) THEN SelectSeq(styles[1], Has) ELSE <<>>
    IN  [champion |-> champ,
         score |-> 5 * Len(countered) + 2 * Len(synergies) + Len(matched),
         reasons |-> [i \in 1..Len(countered) |-> [reason |-> "Counters", of |-> countered[i]]]
                     \o [i \in 1..Len(synergies) |->
                            [reason |-> "Synergizes with", of |-> synergies[i]]]
                     \o [i \in 1..Len(matched) |->
                            [reason |-> "Has playstyle", of |-> matched[i]]]]

pick_candidate(g, champ, enemy, allies, styles) ==
    LET Counters(e) == AskCounters(g, champ, e)
        Synergizes(ally) == AskSynergy(g, champ, ally)
        Has(style) == AskPlaystyle(g, champ, style)
        countered == IF PyTruthy(enemy) THEN SelectSeq(<<enemy[1]>>, Counters) ELSE <<>>
        synergies == IF PyTruthy(allies) THEN SelectSeq(allies[1], Synergizes) ELSE <<>>
        matched == IF PyTruthy(styles) THEN SelectSeq(styles[1], Has) ELSE <<>>
    IN  [champion |-> champ,
         score |-> 5 * Len(countered) + 2 * Len(synergies) + Len(matched),
         reasons |-> [i \in 1..Len(countered) |-> [reason |-> "Counters", of |-> countered[i]]]
                     \o [i \in 1..Len(synergies) |->
                            [reason |-> "Synergizes with", of |-> synergies[i]]]
                     \o [i \in 1..Len(matched) |->
                            [reason |-> "Has playstyle", of |-> matched[i]]]]

RECURSIVE by_score(_, _)
\* candidates.sort(key=score, reverse=True): the sort is stable, the
\* candidates of one score keep their order
by_score(candidates, score) ==
    IF score <= 0 THEN <<>>
    ELSE LET Scored(c) == c.score = score
         IN  SelectSeq(candidates, Scored) \o by_score(candidates, score - 1)

\* the largest score a request can give
TopScore(allies, styles) ==
    5 + 2 * (IF PyTruthy(allies) THEN Len(allies[1]) ELSE 0)
      + (IF PyTruthy(styles) THEN Len(styles[1]) ELSE 0)

\* rows: the names of the lane query in the order the store yields them.
\* The lane query goes through query() and is logged; the ASK queries go
\* to graph.query directly and raise when they do not parse.
recommend_pick(g, rows, lane, enemy_champion, ally_champions, preferred_playstyles) ==
    LET Positive(c) == c.score > 0
        scored == [i \in 1..Len(rows) |->
                     pick_candidate(g, rows[i], enemy_champion, ally_champions,
                                    preferred_playstyles)]
        sorted == by_score(SelectSeq(scored, Positive),
                           TopScore(ally_champions, preferred_playstyles))
    IN  [ret |-> IF \E i \in 1..Len(rows) :
                       ~AsksParse(rows[i], enemy_champion, ally_champions,
                                  preferred_playstyles)
                 THEN RaisedError
                 ELSE [candidates |-> SubSeq(sorted, 1, Min({MaxPicks, Len(sorted)}))],
         queries |-> <<<<Pattern("lanes", lane)>>>>]

(***************************************************************************)
(* Inputs of recommend_pick: the top lane holds MaxLaners champions, one   *)
(* more champion plays mid lane, two more play no lane.                    *)
(***************************************************************************)
PickEnemy == MaxLaners + 1
PickAllies == {MaxLaners + 2, MaxLaners + 3}
PickRoster == 1..(MaxLaners + 3)

\* "A", "B", ...
PickName(k) == <<64 + k>>

PickBase ==
    {<<k, "heroName", PickName(k)>> : k \in PickRoster}
    \cup {<<k, "typicalLane", "TopLane">> : k \in 1..MaxLaners}
    \cup {<<PickEnemy, "typicalLane", "MidLane">>}

\* all top laners but the first three burst
PickFiller == {<<k, "hasPlaystyle", "BurstPlaystyle">> : k \in 4..MaxLaners}

PickOptional ==
    {<<1, "counters", PickEnemy>>, <<1, "hardCounters", PickEnemy>>,
     <<2, "hardCounters", PickEnemy>>,
     <<1, "strongSynergyWith", MaxLaners + 2>>,
     <<MaxLaners + 2, "synergyWith", 2>>,
     <<MaxLaners + 3, "synergyWith", 1>>,
     <<3, "hasPlaystyle", "PokePlaystyle">>,
     <<2, "hasPlaystyle", "BurstPlaystyle">>,
     <<PickEnemy, "hasPlaystyle", "BurstPlaystyle">>}

PickGraphs == {PickBase \cup filler \cup facts :
                  filler \in {{}, PickFiller}, facts \in SUBSET PickOptional}

PickLanes == {"TopLane", "MidLane"} \cup BadTags

\* no enemy, the mid laner, a name with a double quote
PickEnemies == {Nothing, Some(PickName(PickEnemy)), Some(<<81, Quote>>)}

PickAllyLists ==
    {Nothing, Some(<<>>), Some(<<PickName(MaxLaners + 2)>>),
     Some(<<PickName(MaxLaners + 2), PickName(MaxLaners + 3)>>),
     Some(<<PickName(MaxLaners + 2), PickName(MaxLaners + 2)>>)}

PickStyles == {Nothing, Some(<<"Burst">>), Some(<<"Poke", "Burst">>)}

RECURSIVE SortedNames(_)
SortedNames(names) ==
    IF names = {} THEN <<>>
    ELSE LET first == CHOOSE x \in names : \A y \in names : x = y \/ LexLess(x, y)
         IN  <<first>> \o SortedNames(names \ {first})

Reversed(s) == [i \in 1..Len(s) |-> s[Len(s) + 1 - i]]

\* the orders of the rows explored: by name, and the reverse
PickRowOrders(names) == {SortedNames(names), Reversed(SortedNames(names))}

InitPick ==
    /\ snapshots = <<>>
    /\ retriever_log = <<>>
    /\ champions = <<>>
    /\ items = <<>>
    /\ NoSession
    /\ instances = NoInstances
    /\ graph \in PickGraphs
    /\ last_queries = <<>>
    /\ call = NoCall
    /\ result = <<>>

RecommendPick ==
    /\ call = NoCall
    /\ \E lane \in PickLanes, enemy \in PickEnemies, allies \in PickAllyLists,
          styles \in PickStyles :
          \E rows \in PickRowOrders(IF lane \in BadTags THEN {} ELSE lane_names(graph, lane)) :
              Returns("recommend_pick",
                      [lane |-> lane, enemy_champion |-> enemy, ally_champions |-> allies,
                       preferred_playstyles |-> styles],
                      recommend_pick(graph, rows, lane, enemy, allies, styles))

NextPick ==
    \/ ClearQueryLog
    \/ RecommendPick

SpecPick == InitPick /\ [][NextPick]_vars

(***************************************************************************)
(* Claims about recommend_pick.                                            *)
(***************************************************************************)
Picked == call # NoCall /\ call.op = "recommend_pick" /\ ~Raised(result)

\* the edges of the graph between the champions named a and b
CountersEdge(a, b) ==
    \E t \in graph : /\ t[2] \in {"counters", "hardCounters"}
                     /\ <<t[1], "heroName", a>> \in graph
                     /\ <<t[3], "heroName", b>> \in graph

SynergyEdge(a, b) ==
    \E t \in graph : /\ t[2] \in {"strongSynergyWith", "synergyWith"}
                     /\ \/ <<t[1], "heroName", a>> \in graph /\ <<t[3], "heroName", b>> \in graph
                        \/ <<t[1], "heroName", b>> \in graph /\ <<t[3], "heroName", a>> \in graph

PlaysStyle(a, style) ==
    \E t \in graph : /\ t[2] = "hasPlaystyle"
                     /\ t[3] = style \o "Playstyle"
                     /\ <<t[1], "heroName", a>> \in graph

Listed(option) == IF option = Nothing THEN <<>> ELSE option[1]

\* the score the request gives the champion named name
DueScore(name) ==
    (IF call.args.enemy_champion # Nothing /\ call.args.enemy_champion[1] # <<>>
        /\ CountersEdge(name, call.args.enemy_champion[1]) THEN 5 ELSE 0)
    + 2 * Cardinality({i \in DOMAIN Listed(call.args.ally_champions) :
                          SynergyEdge(name, Listed(call.args.ally_champions)[i])})
    + Cardinality({j \in DOMAIN Listed(call.args.preferred_playstyles) :
                      PlaysStyle(name, Listed(call.args.preferred_playstyles)[j])})

\* C27: recommend_pick returns at most 10 candidates, each a champion of
\* the requested lane, each with score > 0 and in non-increasing order of
\* score; a candidate's score is 5 if it has a counters or hardCounters
\* edge to the given enemy, plus 2 for each listed ally with a strong or
\* normal synergy edge in either direction, plus 1 for each preferred
\* playstyle it has, and its reasons list has one entry per contribution.
C27_PickScores ==
    Picked =>
        \A candidates \in {result.candidates} :
            /\ Len(candidates) <= 10
            /\ \A i \in 1..Len(candidates) :
                  /\ \E c \in Named(graph, candidates[i].champion) :
                        <<c, "typicalLane", call.args.lane>> \in graph
                  /\ candidates[i].score > 0
                  /\ candidates[i].score = DueScore(candidates[i].champion)
                  /\ 5 * Cardinality({k \in DOMAIN candidates[i].reasons :
                                         candidates[i].reasons[k].reason = "Counters"})
                     + 2 * Cardinality({k \in DOMAIN candidates[i].reasons :
                                         candidates[i].reasons[k].reason = "Synergizes with"})
                     + Cardinality({k \in DOMAIN candidates[i].reasons :
                                         candidates[i].reasons[k].reason = "Has playstyle"})
                     = candidates[i].score
                  /\ i < Len(candidates) => candidates[i].score >= candidates[i + 1].score

\* eleven top laners score, ten are returned; the first counters the enemy,
\* synergizes with the ally listed twice through edges of both directions
\* and scores 9
C27_Witness ==
    /\ Picked
    /\ Cardinality({name \in lane_names(graph, call.args.lane) : DueScore(name) > 0}) > 10
    /\ Len(result.candidates) = 10
    /\ result.candidates[1].score = 9
    /\ Len(result.candidates[1].reasons) = 3
    /\ result.candidates[10].score = 1

\* an ally whose synergy edge points at the candidate counts
C27_WitnessIncomingEdge ==
    /\ Picked
    /\ \E i \in 1..Len(result.candidates) :
          /\ result.candidates[i].champion = PickName(2)
          /\ result.candidates[i].score = 2

\* a champion of another lane that bursts is not a candidate for the top
\* lane
C27_WitnessOtherLane ==
    /\ Picked
    /\ call.args.lane = "TopLane"
    /\ <<PickEnemy, "hasPlaystyle", "BurstPlaystyle">> \in graph
    /\ call.args.preferred_playstyles = Some(<<"Burst">>)
    /\ Len(result.candidates) > 0

\* the request raised: an ASK query with a double quote in a name
C27_WitnessRaised == call # NoCall /\ call.op = "recommend_pick" /\ Raised(result)

(***************************************************************************)
(* scripts/mapping/map_all_champion_data.py: the counter data of the       *)
(* scraped pages is added to the graph.  Scores are kept in tenths         *)
(* (4.0 is 40).  A URI is written as its local name.                       *)
(***************************************************************************)
HardCountersScore == 40      \* score <= 4.0
HardCounteredByScore == 55   \* score >= 5.5
DefaultScore == 50           \* weak.get("score", 5.0)
MaxFiles == 2                \* files of counter data

CounterRelations == {"counters", "hardCounters", "counteredBy", "hardCounteredBy"}

\* the punctuation sanitize_uri removes: ' - . ( ) : , & ! /
Punctuation == {39, 45, 46, 40, 41, 58, 44, 38, 33, 47}

\* sanitize_uri for names of letters, blanks and punctuation: punctuation
\* is removed, a run of blanks becomes one underscore
sanitize_uri(name) ==
    LET Kept(code) == code \notin Punctuation
        kept == SelectSeq(name, Kept)
        starts == {i \in 1..Len(kept) : kept[i] # 32 \/ i = 1 \/ kept[i - 1] # 32}
        Nth(k) == CHOOSE i \in starts : Cardinality({j \in starts : j < i}) = k - 1
    IN  [k \in 1..Cardinality(starts) |-> IF kept[Nth(k)] = 32 THEN 95 ELSE kept[Nth(k)]]

\* str.capitalize(): the first letter upper case, the others lower case
Capitalize(name) ==
    [i \in 1..Len(name) |->
        IF i = 1 THEN (IF name[i] >= 97 /\ name[i] <= 122 THEN name[i] - 32 ELSE name[i])
        ELSE (IF name[i] >= 65 /\ name[i] <= 90 THEN name[i] + 32 ELSE name[i])]

\* normalize_champion_name of the mapping script for a name outside its
\* two tables of special cases
uri_name(name) == sanitize_uri(Capitalize(name))

\* existing.lower().replace("_", "")
Folded(name) ==
    LET NoUnderscore(code) == code # 95
    IN  SelectSeq(Lower(name), NoUnderscore)

\* get_existing_champions: the subjects that have a heroName
get_existing_champions(g) == {t[1] : t \in {t \in g : t[2] = "heroName"}}

\* find_champion_uri: the URI, or None
find_champion_uri(champion_name, existing_champions, g) ==
    LET normalized == uri_name(champion_name)
        folded == {existing \in existing_champions : Folded(existing) = Folded(normalized)}
    IN  IF normalized \in existing_champions THEN Some(normalized)
        ELSE IF folded # {} THEN Some(CHOOSE existing \in folded : TRUE)
        ELSE IF \E t \in g : t[1] = normalized THEN Some(normalized)
        ELSE Nothing

\* the entries of a list that name a champion
NamedEntries(list) == {i \in 1..Len(list) : Get(list[i], "champion", <<>>) # <<>>}

\* a variant with the thresholds taken strictly
file_edges_strict(champion_uri, data) ==
    {<<champion_uri,
       IF Get(data.weakAgainst[i], "score", DefaultScore) > HardCounteredByScore
       THEN "hardCounteredBy" ELSE "counteredBy",
       uri_name(data.weakAgainst[i].champion)>> : i \in NamedEntries(data.weakAgainst)}
    \cup
    {<<champion_uri,
       IF Get(data.strongAgainst[i], "score", DefaultScore) < HardCountersScore
       THEN "hardCounters" ELSE "counters",
       uri_name(data.strongAgainst[i].champion)>> : i \in NamedEntries(data.strongAgainst)}

\* the triples the two loops over one champion's lists add
file_edges(champion_uri, data) ==
    {<<champion_uri,
       IF Get(data.weakAgainst[i], "score", DefaultScore) >= HardCounteredByScore
       THEN "hardCounteredBy" ELSE "counteredBy",
       uri_name(data.weakAgainst[i].champion)>> : i \in NamedEntries(data.weakAgainst)}
    \cup
    {<<champion_uri,
       IF Get(data.strongAgainst[i], "score", DefaultScore) <= HardCountersScore
       THEN "hardCounters" ELSE "counters",
       uri_name(data.strongAgainst[i].champion)>> : i \in NamedEntries(data.strongAgainst)}

\* the entries counted under one relation
file_count(data, relation) ==
    Cardinality({i \in NamedEntries(data.weakAgainst) :
                    relation = IF Get(data.weakAgainst[i], "score", DefaultScore)
                                  >= HardCounteredByScore
                               THEN "hardCounteredBy" ELSE "counteredBy"})
    + Cardinality({i \in NamedEntries(data.strongAgainst) :
                    relation = IF Get(data.strongAgainst[i], "score", DefaultScore)
                                  <= HardCountersScore
                               THEN "hardCounters" ELSE "counters"})

RECURSIVE add_counter_relationships(_, _, _)
\* counter_data: the files in the order of the dictionary; a file whose
\* champion is not found is skipped
add_counter_relationships(g, counter_data, existing_champions) ==
    IF counter_data = <<>>
    THEN [graph |-> g, stats |-> [relation \in CounterRelations |-> 0]]
    ELSE LET Rest(found) ==
                 add_counter_relationships(
                     IF found = Nothing THEN g
                     ELSE g \cup file_edges(found[1], Head(counter_data)),
                     Tail(counter_data), existing_champions)
             With(found, rest) ==
                 [graph |-> rest.graph,
                  stats |-> [relation \in CounterRelations |->
                               rest.stats[relation] +
                               (IF found = Nothing THEN 0
                                ELSE file_count(Head(counter_data), relation))]]
             Found(found) == With(found, Rest(found))
         IN  Found(find_champion_uri(Head(counter_data).champion, existing_champions, g))

(***************************************************************************)
(* Inputs of the mapping: the graph holds the champions "Ab" and "B"; the  *)
(* pages of "ab", "B" and "Zz" were scraped.  A page lists a champion at   *)
(* most once, under weakAgainst when its score is 5.0 or more and under    *)
(* strongAgainst otherwise.                                                *)
(***************************************************************************)
MappingBase == {<<<<65, 98>>, "heroName", <<65, 98>>>>, <<<<66>>, "heroName", <<66>>>>}

Pages == <<<<97, 98>>, <<66>>, <<90, 122>>>>

\* the champions a page may list, by the name the page gives them
ListedOn == <<<<<<98>>, <<90, 122>>>>, <<<<65, 98>>, <<90, 122>>>>, <<<<65, 98>>, <<66>>>>>>

MatchupScores == {40, 41, 54, 55}

\* the entries of a list: those of the page's champions whose score test
\* holds, in the order of the page; the score 0 stands for a champion the
\* page does not list
ListOf(names, scores, InList(_)) ==
    LET listed == {i \in 1..Len(names) : scores[i] # 0 /\ InList(scores[i])}
        Nth(k) == CHOOSE i \in listed : Cardinality({j \in listed : j < i}) = k - 1
    IN  [k \in 1..Cardinality(listed) |-> [champion |-> names[Nth(k)], score |-> scores[Nth(k)]]]

\* what get_counters of the scraper writes for page p
PageFile(p, scores) ==
    LET Weak(score) == score >= 50
        Strong(score) == score < 50
    IN  [champion |-> Pages[p],
         weakAgainst |-> ListOf(ListedOn[p], scores, Weak),
         strongAgainst |-> ListOf(ListedOn[p], scores, Strong)]

PageFiles(p) == {PageFile(p, scores) : scores \in [1..2 -> MatchupScores \cup {0}]}

\* a page that was not scraped
NoFile == [champion |-> <<>>]

\* the files of the pages scraped, in the order of the pages
CounterData ==
    LET Scraped(file) == file # NoFile
    IN  {SelectSeq(files, Scraped) :
            files \in {files \in (PageFiles(1) \cup {NoFile}) \X (PageFiles(2) \cup {NoFile})
                                    \X (PageFiles(3) \cup {NoFile}) :
                          Cardinality({p \in 1..3 : files[p] # NoFile}) <= MaxFiles}}

InitMapping ==
    /\ snapshots = <<>>
    /\ retriever_log = <<>>
    /\ champions = <<>>
    /\ items = <<>>
    /\ NoSession
    /\ instances = NoInstances
    /\ graph = MappingBase
    /\ last_queries = <<>>
    /\ call = NoCall
    /\ result = <<>>

\* main() of the mapping script, phase 1
MapCounterData ==
    /\ call = NoCall
    /\ \E counter_data \in CounterData :
          \E mapped \in {add_counter_relationships(graph, counter_data,
                                                   get_existing_champions(graph))} :
              /\ call' = [op |-> "add_counter_relationships", args |-> counter_data]
              /\ graph' = mapped.graph
              /\ result' = mapped.stats
    /\ UNCHANGED <<last_queries, snapshots, retriever_log, champions, items, instances, session>>

NextMapping == MapCounterData

SpecMapping == InitMapping /\ [][NextMapping]_vars

(***************************************************************************)
(* Claims about the counter edges.                                         *)
(***************************************************************************)
Mapped == call # NoCall /\ call.op = "add_counter_relationships"

\* the champion a name of the data stands for
ChampionOf(name) ==
    CASE name \in {<<97, 98>>, <<65, 98>>} -> <<65, 98>>
      [] name \in {<<98>>, <<66>>}   -> <<66>>
      [] OTHER                     -> <<90, 122>>

InGraph(name) == name \in {<<65, 98>>, <<66>>}

\* the recorded matchups: the strong and the weak champion and the score,
\* from the files of the champions of the graph
Matchups ==
    UNION {{[strong |-> ChampionOf(call.args[f].champion),
             weak |-> ChampionOf(call.args[f].strongAgainst[i].champion),
             from |-> "strong",
             score |-> call.args[f].strongAgainst[i].score] :
               i \in 1..Len(call.args[f].strongAgainst)}
           \cup
           {[strong |-> ChampionOf(call.args[f].weakAgainst[i].champion),
             weak |-> ChampionOf(call.args[f].champion),
             from |-> "weak",
             score |-> call.args[f].weakAgainst[i].score] :
               i \in 1..Len(call.args[f].weakAgainst)} :
           f \in {f \in 1..Len(call.args) : InGraph(ChampionOf(call.args[f].champion))}}

Edge(a, relation, b) == <<a, relation, b>> \in graph

\* C28 as stated: every recorded matchup with score s produces exactly one
\* of hardCounters and counters from the strong to the weak champion and
\* exactly one of hardCounteredBy and counteredBy from the weak to the
\* strong one, hardCounters iff s <= 4.0, hardCounteredBy iff s >= 5.5,
\* only soft edges for a score in between.
C28_CounterPartition ==
    Mapped =>
        \A m \in Matchups :
            /\ Edge(m.strong, "hardCounters", m.weak) # Edge(m.strong, "counters", m.weak)
            /\ Edge(m.weak, "hardCounteredBy", m.strong) # Edge(m.weak, "counteredBy", m.strong)
            /\ Edge(m.strong, "hardCounters", m.weak) <=> m.score <= 40
            /\ Edge(m.weak, "hardCounteredBy", m.strong) <=> m.score >= 55

\* the one edge a recorded matchup gives: from the champion of the file
\* to the listed champion
EdgeOf(m) ==
    IF m.from = "strong"
    THEN <<m.strong, IF m.score <= 40 THEN "hardCounters" ELSE "counters", m.weak>>
    ELSE <<m.weak, IF m.score >= 55 THEN "hardCounteredBy" ELSE "counteredBy", m.strong>>

Hardness(relation) == IF relation \in {"hardCounters", "hardCounteredBy"} THEN "hard" ELSE "soft"

Kind(relation) == IF relation \in {"hardCounters", "counters"} THEN "counters" ELSE "counteredBy"

\* C28, amended: every entry of a file whose champion is in the graph
\* produces exactly one edge, from the champion of the file to the listed
\* champion: a strongAgainst entry hardCounters when s <= 4.0 and counters
\* otherwise, a weakAgainst entry hardCounteredBy when s >= 5.5 and
\* counteredBy otherwise.  No mirrored edge is added: the counter edges of
\* the graph are exactly those, so no pair has the hard and the soft edge
\* of one kind in one direction, and the statistics count the entries.
C28_OneEdgePerEntry ==
    Mapped =>
        /\ {t \in graph : t[2] \in CounterRelations} = {EdgeOf(m) : m \in Matchups}
        /\ \A t, u \in graph :
              (/\ t[2] \in CounterRelations /\ u[2] \in CounterRelations
               /\ t[1] = u[1] /\ t[3] = u[3] /\ Kind(t[2]) = Kind(u[2])) => t[2] = u[2]
        /\ \A relation \in CounterRelations :
              result[relation] = Cardinality({m \in Matchups : EdgeOf(m)[2] = relation})

\* "ab" is strong against "b" with score 4.0 and the page of "B" does not
\* list "Ab": hardCounters from Ab to B, and no edge from B to Ab
C28_Witness ==
    /\ Mapped
    /\ Edge(<<65, 98>>, "hardCounters", <<66>>)
    /\ \A t \in graph : ~(t[1] = <<66>> /\ t[3] = <<65, 98>>)
    /\ result["hardCounters"] = 1

\* both pages record the matchup with scores of different bands: the hard
\* edge one way, the soft edge back
C28_WitnessBothPages ==
    /\ Mapped
    /\ Edge(<<65, 98>>, "hardCounters", <<66>>)
    /\ Edge(<<66>>, "counteredBy", <<65, 98>>)

\* the page of a champion that is not in the graph adds nothing
C28_WitnessSkippedPage ==
    /\ Mapped
    /\ \E f \in 1..Len(call.args) :
          /\ call.args[f].champion = <<90, 122>>
          /\ Len(call.args[f].strongAgainst) + Len(call.args[f].weakAgainst) > 0
    /\ \A t \in graph : t[1] # <<90, 122>>

(***************************************************************************)
(* The query log as an object.  heap.lists are the list objects created    *)
(* for the log so far, heap.engine is the one self.last_queries refers to; *)
(* a result of a semantic dispatch holds the reference get_last_queries    *)
(* returned, not a copy.                                                   *)
(***************************************************************************)
MaxDispatches == 3  \* semantic dispatches of a session

\* a variant that empties the list in place: self.last_queries.clear()
clear_query_log_in_place(objects) ==
    [objects EXCEPT !.lists[objects.engine] = <<>>]

\* clear_query_log: self.last_queries = [], a new list object
clear_query_log(objects) ==
    [lists |-> Append(objects.lists, <<>>), engine |-> Len(objects.lists) + 1]

\* query(): self.last_queries.append(clean_query), for each query in turn
log_queries(objects, queries) ==
    [objects EXCEPT !.lists[objects.engine] = @ \o queries]

\* get_last_queries: the reference itself
get_last_queries(objects) == objects.engine

\* the intents of the session: semantic ones with one query, with two,
\* with a query that does not parse, with no query and with no payload,
\* one that raises, and one that is not semantic
LoggedIntents ==
    {[intent |-> Some("CHAMPION_BY_CC"), cc_types |-> Some(<<"Stun">>)],
     [intent |-> Some("CHAMPION_BY_CC"), cc_types |-> Some(<<"Stun", "Knockup">>)],
     [intent |-> Some("CHAMPION_BY_CC")],
     [intent |-> Some("CHAMPION_BY_EFFECT"), ability_effects |-> Some(<<"Da sh">>)],
     [intent |-> Some("TEAM_COUNTER_ANALYSIS"), enemy_champions |-> Some(<<<<65>>, <<65, 98>>>>)],
     [intent |-> Some("TEAM_SYNERGY_ANALYSIS"), team_champions |-> Some(<<<<65>>, <<65, 98>>>>)],
     [intent |-> Some("TEAM_SYNERGY_ANALYSIS"), team_champions |-> Some(<<<<65>>, <<Quote>>>>)],
     [intent |-> Some("CHAMPION_INFO"), champion_name |-> Some(<<65>>)]}

IsSemantic(intent) == TagOf(intent) # Nothing /\ TagOf(intent)[1] \in SemanticTags

InitQueryLog ==
    /\ graph = DispatchFacts
    /\ champions = ChampionStore
    /\ items = <<>>
    /\ NoSession
    /\ snapshots = <<>>
    /\ last_queries = <<>>
    /\ retriever_log = <<>>
    /\ instances = NoInstances
    /\ call = NoCall
    /\ result = <<>>

\* dispatch_query with the log as an object: a semantic branch clears the
\* log, its lookups append to the engine's list, and the payload takes the
\* reference
DispatchLogged ==
    /\ call = NoCall
    /\ Len(heap.lists) <= MaxDispatches
    /\ \E intent \in LoggedIntents :
        \E rows \in RowChoices(champions, graph, intent) :
            \E r \in {dispatch_query(champions, graph, snapshots, last_queries, instances,
                                     intent, rows)} :
                /\ call' = [op |-> "dispatch_query", args |-> intent, issued |-> r.issued]
                /\ result' = r.ret
                /\ last_queries' = r.last_queries
                /\ retriever_log' = r.lookups
                /\ instances' = r.instances
                /\ heap' = IF IsSemantic(intent)
                           THEN log_queries(clear_query_log(heap), r.last_queries)
                           ELSE heap
                /\ handed_out' =
                       IF ~Raised(r.ret) /\ "sparql_queries" \in DOMAIN r.ret
                       THEN Append(handed_out,
                                   [list |-> get_last_queries(heap'),
                                    held |-> r.ret.sparql_queries])
                       ELSE handed_out
                /\ UNCHANGED <<graph, snapshots, champions, items, conversation_history>>

\* the main loop takes the next question; the results stay with the caller
NextQuestion ==
    /\ call # NoCall
    /\ call' = NoCall
    /\ result' = <<>>
    /\ retriever_log' = <<>>
    /\ UNCHANGED <<graph, last_queries, snapshots, champions, items, instances, session>>

NextQueryLog == DispatchLogged \/ NextQuestion

SpecQueryLog == InitQueryLog /\ [][NextQueryLog]_vars

(***************************************************************************)
(* Claims about the query log.                                             *)
(***************************************************************************)
\* C29: the query list handed out in a dispatch result is never changed
\* afterwards: after any later dispatches the list an earlier result
\* refers to holds exactly the queries it held when it was returned, the
\* lists of two results are different objects, and the engine's log is the
\* object of the last semantic dispatch.
C29_HandedOutListsKept ==
    /\ \A k \in 1..Len(handed_out) : heap.lists[handed_out[k].list] = handed_out[k].held
    /\ \A j, k \in 1..Len(handed_out) : j # k => handed_out[j].list # handed_out[k].list
    /\ last_queries = heap.lists[heap.engine]

\* three results were handed out; the first holds two queries, a later
\* one none, and the engine's log is now another list
C29_Witness ==
    /\ Len(handed_out) = 3
    /\ Len(handed_out[1].held) = 2
    /\ handed_out[2].held # handed_out[1].held
    /\ handed_out[3].held = <<>>
    /\ heap.lists[handed_out[1].list] = handed_out[1].held
    /\ heap.engine # handed_out[1].list

\* a semantic dispatch raised after the log was cleared: the earlier
\* result keeps its queries
C29_WitnessAfterRaise ==
    /\ call # NoCall
    /\ Raised(result)
    /\ Len(handed_out) > 0
    /\ handed_out[Len(handed_out)].held # <<>>
    /\ heap.engine # handed_out[Len(handed_out)].list

(***************************************************************************)
(* Claims about get_snapshot and the SNAPSHOT_ANALYSIS branch.             *)
(***************************************************************************)
\* a SNAPSHOT_ANALYSIS dispatch whose game_index is an integer or left out
SnapshotDispatched ==
    /\ Dispatched
    /\ TagOf(call.args) = Some("SNAPSHOT_ANALYSIS")
    /\ Get(call.args, "game_index", Some(0)) # Nothing

RequestedIndex == Get(call.args, "game_index", Some(0))[1]

\* the game an index stands for
GameOf(i) == IF 0 <= i /\ i < Len(snapshots) THEN i ELSE 0

\* the analysis the dispatch asks for, made of one snapshot
AnalysisOf(snapshot) ==
    LET analysis_type == Get(call.args, "snapshot_analysis_type", Some("full"))
    IN  IF analysis_type = Some("items") THEN analyze_item_recommendations(snapshot).ret
        ELSE IF analysis_type = Some("counters") THEN analyze_counter_strategies(snapshot).ret
        ELSE IF analysis_type = Some("game_state") THEN analyze_game_state(snapshot).ret
        ELSE full_analysis(snapshot).ret

NoSnapshotError ==
    [error |-> "No game snapshot available. Please ensure game_snapshots.json exists."]

\* C30: get_snapshot(i) returns snapshot i when 0 <= i < number of loaded
\* snapshots, snapshot 0 for every other integer i when a snapshot is
\* loaded, and None only when none is loaded; a SNAPSHOT_ANALYSIS dispatch
\* with an out-of-range game_index analyses game 0 while echoing the
\* requested game_index, and reports "No game snapshot available" only
\* when the snapshot list is empty.
C30_SnapshotIndexFallback ==
    /\ \A i \in -2..(Len(snapshots) + 1) :
          get_snapshot(snapshots, Some(i)) =
              [snapshot |-> IF snapshots = <<>> THEN Nothing
                            ELSE Some(snapshots[GameOf(i) + 1])]
    /\ SnapshotDispatched =>
          /\ result = NoSnapshotError <=> snapshots = <<>>
          /\ snapshots # <<>> =>
                \A analysis \in {AnalysisOf(snapshots[GameOf(RequestedIndex) + 1])} :
                    IF Raised(analysis) THEN result = analysis
                    ELSE /\ result.analysis = analysis
                         /\ result.game_index = Get(call.args, "game_index", Some(0))

\* game 2 of two games was asked for: the answer is the analysis of game
\* 0, which differs from that of game 1, and names game 2
C30_Witness ==
    /\ SnapshotDispatched
    /\ Len(snapshots) = 2
    /\ RequestedIndex = 2
    /\ ~Raised(result)
    /\ result.game_index = Some(2)
    /\ result.analysis = AnalysisOf(snapshots[1])
    /\ result.analysis # AnalysisOf(snapshots[2])

\* a negative index is out of range too: game 0, not the last game
C30_WitnessNegative ==
    /\ SnapshotDispatched
    /\ Len(snapshots) = 2
    /\ RequestedIndex = -1
    /\ ~Raised(result)
    /\ result.game_index = Some(-1)
    /\ result.analysis = AnalysisOf(snapshots[1])

\* an index in range selects its game
C30_WitnessInRange ==
    /\ SnapshotDispatched
    /\ Len(snapshots) = 2
    /\ RequestedIndex = 1
    /\ ~Raised(result)
    /\ result.analysis = AnalysisOf(snapshots[2])
    /\ result.analysis # AnalysisOf(snapshots[1])

\* no snapshot is loaded
C30_WitnessNoSnapshot == SnapshotDispatched /\ snapshots = <<>> /\ result = NoSnapshotError

====
